---- MODULE Spec2Model ----
(***************************************************************************)
(* A model of the synchronization engine of the Aura visual web editor:    *)
(* the textual source of /src/App.tsx, the insertion/removal engine of the *)
(* components panel, the element tagger, the DOM scanner of the layers     *)
(* panel, the DOM-to-source generator and the edit/reload/rescan cycle.    *)
(*                                                                         *)
(* Text is modelled line by line.  A line is a record that keeps what the  *)
(* code looks at: which of the character sequences "<", "</" and "/>" it   *)
(* contains (derived from its kind), the JSX attributes written on it, its *)
(* leading indentation and its text.  A JavaScript string that the code    *)
(* builds by joining parts with "-" is a sequence of those parts.          *)
(***************************************************************************)
EXTENDS Integers, Sequences, FiniteSets, TLC

VARIABLES
    appTsx,          \* content of /src/App.tsx in the runtime, a sequence of lines
    now,             \* Date.now(), in milliseconds since the session began
    assigned,        \* the element tags assigned so far, in order of assignment
    selectedTag,     \* selectedElement.dataAttribute of the components panel
    serviceExposed,  \* whether window.webContainerService is defined
    lastOp,          \* the last handler that ran, with what it read, wrote and logged
    dom,             \* the live document of the preview frame
    layers,          \* the layer list of the layers panel
    projectLayers,   \* currentProject.layers
    selectedElement, \* the selected element of the studio
    pendingReload,   \* App.tsx was written and the runtime has not reloaded yet
    fileOrigin,      \* the document App.tsx was generated from, <<>> if it was not generated
    edits,           \* how many edits of the live document were made
    domOp,           \* the last step of the editing session on the live document
    syncPc,          \* where the handler of the running edit stands
    pendingCode,     \* the source that is being written to the runtime
    timers,          \* the timers that are set
    reloadAt,        \* when the runtime will have reloaded the written file
    clock,           \* the time, in milliseconds
    canvasExposed,   \* whether window.webStudioCanvas is defined
    editableElementsCount,  \* the number of editable elements the canvas found
    listening,       \* the elements of the document that carry a click listener
    events,          \* the steps of the edits so far, each with the number of its edit
    visualEditingReady,  \* the canvas shows "Ready (n elements)"
    writtenAt,       \* when App.tsx was last written by an edit
    handlers,        \* the handlers of the components panel that are running
    handlerOp,       \* the last step of a running handler
    boot,            \* WebContainerService.webContainer and the calls of initialize()
    serverWait,      \* the promise of startProject that waits for server-ready
    polls,           \* the polling intervals of the canvas, one for each load of the frame
    setupCalls,      \* how many times the polling called setupVisualEditing()
    currentTool,     \* the tool chosen in the toolbar
    listenerTool,    \* the tool that the click listeners in the document were made with
    pendingSetups,   \* the calls of setupVisualEditing whose scan is still to come
    openTab,         \* the tab of the code editor: its content and its modified mark
    saves,           \* the saves of the code editor whose write has not settled
    panelExposed,    \* window.webStudioComponentsPanel is set
    chatOp           \* the last action the chat assistant executed

engineVars == <<appTsx, now, assigned, selectedTag, serviceExposed, lastOp>>

\* what the editing session on the live document leaves alone
panelVars == <<now, assigned, selectedTag, serviceExposed, lastOp>>

domVars == <<dom, layers, projectLayers, selectedElement, pendingReload, fileOrigin, edits, domOp>>

syncVars == <<syncPc, pendingCode, timers, reloadAt, clock, canvasExposed,
              editableElementsCount, listening, events, visualEditingReady, writtenAt>>

\* the handlers of the components panel that run side by side
handlerVars == <<handlers, handlerOp>>

\* the service that boots the runtime and starts the server, and the canvas
\* that waits for the document of the preview frame
runtimeVars == <<boot, serverWait, polls, setupCalls>>

\* what the panels and the editing sessions leave alone
\* the toolbar and the listeners of the canvas
toolVars == <<currentTool, listenerTool, pendingSetups>>

\* the code editor
tabVars == <<openTab, saves>>

\* the chat assistant
chatVars == <<panelExposed, chatOp>>

auxVars == <<runtimeVars, toolVars, tabVars, chatVars>>

vars == <<engineVars, domVars, syncVars, handlerVars, auxVars>>

(***************************************************************************)
(* Bounds of the model.                                                    *)
(***************************************************************************)
MaxTime == 1        \* Date.now() takes the values 0..MaxTime
MaxAssign == 2      \* at most this many tags are assigned in one session
MaxEdits == 1       \* at most this many edits of the live document in one session
MaxSyncEdits == 2   \* at most this many edits in one session of the timed edit cycle
MaxClock == 3000    \* the time does not advance beyond this many milliseconds

(***************************************************************************)
(* Strings.                                                                *)
(***************************************************************************)
NoTag == <<>>

Stamp(t) == <<"t0", "t1", "t2", "t3", "t4", "t5", "t6", "t7", "t8", "t9">>[t + 1]

Attr(n, v) == [n |-> n, v |-> v]

TagAttrName == "data-webstudio-element"

(***************************************************************************)
(* Lines of source text.  Kinds:                                           *)
(*   open     <div ...>              close    </div>                       *)
(*   void     <img ... />            inline   <p ...>text</p>              *)
(*   text     plain text or boilerplate       comment  {/* ... */}         *)
(*   ostart   <img        (first line of a tag written over many lines)    *)
(*   attr     src="..."   (an attribute on a line of its own)              *)
(*   oend     >           vend     />                                      *)
(*   blank    white space only                                             *)
(*   opentext <p ...>text            textclose  text</p>                   *)
(***************************************************************************)
Line(k, el, attrs, ind, txt) == [k |-> k, el |-> el, attrs |-> attrs, ind |-> ind, txt |-> txt]

\* the text of a line is a sequence of pieces of text, <<>> when it has none
OpenLine(el, attrs, ind) == Line("open", el, attrs, ind, <<>>)
CloseLine(el, ind) == Line("close", el, <<>>, ind, <<>>)
VoidLine(el, attrs, ind) == Line("void", el, attrs, ind, <<>>)
InlineLine(el, attrs, ind, txt) == Line("inline", el, attrs, ind, <<txt>>)
TextLine(txt, ind) == Line("text", "", <<>>, ind, <<txt>>)
CommentLine(txt, ind) == Line("comment", "", <<>>, ind, <<txt>>)
BlankLine(ind) == Line("blank", "", <<>>, ind, <<>>)

\* line.includes('<')
HasLt(line) == line.k \in {"open", "close", "void", "inline", "ostart", "opentext", "textclose"}

\* line.includes('</')
HasLtSlash(line) == line.k \in {"close", "inline", "textclose"}

\* line.includes('/>')
HasSlashGt(line) == line.k \in {"void", "vend"}

\* the value of the data-webstudio-element attribute written on the line
RECURSIVE AttrValue(_, _)
AttrValue(attrs, name) ==
    IF attrs = <<>> THEN NoTag
    ELSE IF Head(attrs).n = name THEN Head(attrs).v
    ELSE AttrValue(Tail(attrs), name)

LineTag(line) == AttrValue(line.attrs, TagAttrName)

\* line.includes(`data-webstudio-element="${id}"`)
IncludesTag(line, id) == id # NoTag /\ LineTag(line) = id

Cls(c) == Attr("className", <<c>>)
Tag(t) == Attr(TagAttrName, t)

(***************************************************************************)
(* The default App.tsx of a project.                                       *)
(***************************************************************************)
Header == << TextLine("import React from 'react'", 0), BlankLine(0),
             TextLine("function App() {", 0), TextLine("return (", 2) >>

Footer == << TextLine(")", 2), TextLine("}", 0), BlankLine(0),
             TextLine("export default App", 0) >>

getDefaultAppTemplate ==
    Header \o
    << OpenLine("div", <<Cls("min-h-screen"), Tag(<<"root">>)>>, 4),
       OpenLine("div", <<Cls("max-w-md"), Tag(<<"container">>)>>, 6),
       OpenLine("h1", <<Cls("text-4xl"), Tag(<<"title">>)>>, 8),
       TextLine("Welcome", 10),
       CloseLine("h1", 8),
       OpenLine("p", <<Cls("text-lg"), Tag(<<"description">>)>>, 8),
       TextLine("Visual design meets code.", 10),
       CloseLine("p", 8),
       OpenLine("div", <<Cls("space-y-4"), Tag(<<"actions">>)>>, 8),
       OpenLine("button", <<Cls("bg-blue-600"), Tag(<<"primary-btn">>)>>, 10),
       TextLine("Get Started", 12),
       CloseLine("button", 10),
       OpenLine("button", <<Cls("border"), Tag(<<"secondary-btn">>)>>, 10),
       TextLine("Learn More", 12),
       CloseLine("button", 10),
       CloseLine("div", 8),
       CloseLine("div", 6),
       CloseLine("div", 4) >> \o
    Footer

(***************************************************************************)
(* The component library of the components panel.  Every template is one   *)
(* line of JSX.                                                            *)
(***************************************************************************)
defaultComponents ==
    { [id |-> "button-primary",
       template |-> InlineLine("button", <<Tag(<<"button-primary">>), Cls("px-6")>>, 0, "Click me")],
      [id |-> "image-placeholder",
       template |-> VoidLine("img", <<Tag(<<"image">>), Attr("src", <<"placeholder.png">>),
                                      Attr("alt", <<"Placeholder">>), Cls("max-w-full")>>, 0)] }

\* jsxTemplate.replace(/data-webstudio-element="[^"]*"/, `data-webstudio-element="${uniqueId}"`)
RECURSIVE ReplaceFirstTag(_, _)
ReplaceFirstTag(attrs, uniqueId) ==
    IF attrs = <<>> THEN <<>>
    ELSE IF Head(attrs).n = TagAttrName THEN <<Tag(uniqueId)>> \o Tail(attrs)
    ELSE <<Head(attrs)>> \o ReplaceFirstTag(Tail(attrs), uniqueId)

generateComponentJSX(component, uniqueId) ==
    [component.template EXCEPT !.attrs = ReplaceFirstTag(@, uniqueId)]

\* `${component.id}-${Date.now()}`
ComponentUniqueId(component, t) == <<component.id, Stamp(t)>>

(***************************************************************************)
(* addComponentToExistingApp.  Line numbers are those of the code, counted *)
(* from 0; -1 stands for "no insertion point".                             *)
(***************************************************************************)
At(lines, i) == lines[i + 1]

SetMax(S) == CHOOSE x \in S : \A y \in S : y <= x
SetMin(S) == CHOOSE x \in S : \A y \in S : x <= y

\* the numbers of S in ascending order
SortedSeq(S) ==
    IF S = {} THEN <<>>
    ELSE [k \in 1..Cardinality(S) |-> CHOOSE x \in S : Cardinality({ y \in S : y <= x }) = k]

\* the first line from index i on that carries the tag of the selected element
FindSelectedLine(lines, sel, i) ==
    LET c == { k \in i..(Len(lines) - 1) : IncludesTag(At(lines, k), sel) }
    IN  IF c = {} THEN -1 ELSE SetMin(c)

IsOpeningLine(line) == HasLt(line) /\ ~HasLtSlash(line) /\ ~HasSlashGt(line)

\* one pass of the inner loop over j; found is the line the loop breaks on
ClosingStep(st, line, j) ==
    LET d1 == IF IsOpeningLine(line) THEN st.depth + 1 ELSE st.depth
        f1 == st.foundOpening \/ IsOpeningLine(line)
    IN  IF HasLtSlash(line)
        THEN [depth |-> d1 - 1, foundOpening |-> f1,
              found |-> IF f1 /\ d1 - 1 = 0 THEN j ELSE -1]
        ELSE [depth |-> d1, foundOpening |-> f1, found |-> -1]

\* the passes for the lines from..to, the first half of them and then the
\* second half, up to the break
RECURSIVE ClosingLoop(_, _, _, _)
ClosingLoop(lines, from, to, st) ==
    IF from > to \/ st.found # -1 THEN st
    ELSE IF from = to THEN ClosingStep(st, At(lines, from), from)
    ELSE ClosingLoop(lines, (from + to) \div 2 + 1, to,
                     ClosingLoop(lines, from, (from + to) \div 2, st))

\* the inner loop over j: the line of the depth-zero closing tag, or -1
FindClosingLine(lines, j, depth, foundOpening) ==
    ClosingLoop(lines, j, Len(lines) - 1,
                [depth |-> depth, foundOpening |-> foundOpening, found |-> -1]).found

IsContainerLine(line) ==
    IncludesTag(line, <<"actions">>) \/ IncludesTag(line, <<"container">>)

\* the outer loop over i: insertionLine = j - 1 for the first container whose
\* closing line j is found
FindContainerInsertion(lines, i) ==
    LET c == { k \in i..(Len(lines) - 1) :
                  /\ IsContainerLine(At(lines, k))
                  /\ FindClosingLine(lines, k, 0, FALSE) # -1
                  /\ FindClosingLine(lines, k, 0, FALSE) - 1 # -1 }
    IN  IF c = {} THEN -1 ELSE FindClosingLine(lines, SetMin(c), 0, FALSE) - 1

\* lines[i].includes('</div>') && lines[i].trim() === '</div>', from the end
FindLastClosingDiv(lines, i) ==
    LET c == { k \in 0..i : At(lines, k).k = "close" /\ At(lines, k).el = "div" }
    IN  IF c = {} THEN -1 ELSE SetMax(c)

DefaultIndent == 10

\* the insertion point and the indentation, [line |-> -1] when there is none
InsertionPoint(lines, sel) ==
    LET bySel == IF sel # NoTag THEN FindSelectedLine(lines, sel, 0) ELSE -1
        byContainer == FindContainerInsertion(lines, 0)
        byDiv == FindLastClosingDiv(lines, Len(lines) - 1)
    IN  IF bySel # -1 THEN [line |-> bySel, indent |-> At(lines, bySel).ind]
        ELSE IF byContainer # -1
             THEN [line |-> byContainer, indent |-> At(lines, byContainer).ind]
        ELSE IF byDiv # -1 THEN [line |-> byDiv, indent |-> DefaultIndent]
        ELSE [line |-> -1, indent |-> DefaultIndent]

addComponentToExistingApp(appContent, component, sel, t) ==
    LET lines == appContent
        uniqueId == ComponentUniqueId(component, t)
        componentJSX == generateComponentJSX(component, uniqueId)
        at == InsertionPoint(lines, sel)
        indentedComponent == [componentJSX EXCEPT !.ind = at.indent]
    IN  IF at.line = -1 THEN appContent
        ELSE SubSeq(lines, 1, at.line) \o <<indentedComponent>>
                 \o SubSeq(lines, at.line + 1, Len(lines))

(***************************************************************************)
(* removeComponentFromApp.                                                 *)
(***************************************************************************)
\* one pass of the loop over the lines
RemoveStep(st, line, elementId) ==
    LET skipLines == st.skipLines
        depth == st.depth
        newLines == st.newLines
    IN  IF IncludesTag(line, elementId)
        THEN IF HasSlashGt(line)
             THEN [skipLines |-> FALSE, depth |-> 0, newLines |-> newLines]
             ELSE [skipLines |-> TRUE,
                   depth |-> IF HasLt(line) /\ ~HasLtSlash(line) THEN 1 ELSE 0,
                   newLines |-> newLines]
        ELSE IF skipLines
        THEN LET d1 == IF IsOpeningLine(line) THEN depth + 1 ELSE depth
             IN  IF HasLtSlash(line)
                 THEN [skipLines |-> d1 - 1 # 0, depth |-> d1 - 1, newLines |-> newLines]
                 ELSE [skipLines |-> TRUE, depth |-> d1, newLines |-> newLines]
        ELSE [skipLines |-> FALSE, depth |-> depth, newLines |-> Append(newLines, line)]

\* the passes for the lines from..to, the first half of them and then the
\* second half; a pass never takes a line out of newLines
RECURSIVE RemoveLoop(_, _, _, _, _)
RemoveLoop(lines, elementId, from, to, st) ==
    IF from > to THEN st
    ELSE IF from = to THEN RemoveStep(st, At(lines, from), elementId)
    ELSE LET half == RemoveLoop(lines, elementId, from, (from + to) \div 2, st)
         IN  IF Len(half.newLines) < Len(st.newLines) THEN st
             ELSE RemoveLoop(lines, elementId, (from + to) \div 2 + 1, to, half)

removeComponentFromApp(appContent, elementId) ==
    RemoveLoop(appContent, elementId, 0, Len(appContent) - 1,
               [skipLines |-> FALSE, depth |-> 0, newLines |-> <<>>]).newLines

(***************************************************************************)
(* The assets panel: handleInsertAsset, getCurrentAppContent and           *)
(* insertAssetIntoComponent.                                               *)
(***************************************************************************)
Assets == { [id |-> "a1", type |-> "image"], [id |-> "v1", type |-> "video"] }

\* `image-${asset.id}`, `video-${asset.id}`
AssetTag(asset) == <<asset.type, asset.id>>

AttrLine(a, ind) == Line("attr", "", <<a>>, ind, <<>>)

\* the JSX that handleInsertAsset writes for the asset, attribute by attribute
AssetCode(asset) ==
    IF asset.type = "image"
    THEN << Line("ostart", "img", <<>>, 0, <<>>),
            AttrLine(Attr("src", <<"url", asset.id>>), 2),
            AttrLine(Attr("alt", <<"name", asset.id>>), 2),
            AttrLine(Cls("max-w-full"), 2),
            AttrLine(Tag(AssetTag(asset)), 2),
            Line("vend", "img", <<>>, 0, <<>>) >>
    ELSE << Line("ostart", "video", <<>>, 0, <<>>),
            AttrLine(Attr("src", <<"url", asset.id>>), 2),
            AttrLine(Attr("controls", <<>>), 2),
            AttrLine(Cls("max-w-full"), 2),
            AttrLine(Tag(AssetTag(asset)), 2),
            Line("oend", "video", <<>>, 0, <<>>),
            TextLine("Your browser does not support the video tag.", 2),
            CloseLine("video", 0) >>

AssetsCurrentAppContent ==
    Header \o
    << OpenLine("div", <<Cls("min-h-screen"), Tag(<<"root">>)>>, 4),
       OpenLine("div", <<Cls("max-w-4xl"), Tag(<<"container">>)>>, 6),
       OpenLine("h1", <<Cls("text-3xl"), Tag(<<"title">>)>>, 8),
       TextLine("Welcome to Aura", 10),
       CloseLine("h1", 8),
       CommentLine("Assets will be inserted here", 8),
       CloseLine("div", 6),
       CloseLine("div", 4) >> \o
    Footer

\* the line holds a ">" character
HasGt(line) ==
    line.k \in {"open", "close", "void", "inline", "oend", "vend", "opentext", "textclose"}

\* the line on which the tag that carries data-webstudio-element="container" ends
FindTagEnd(lines, i) ==
    LET c == { k \in i..(Len(lines) - 1) : HasGt(At(lines, k)) }
    IN  IF c = {} THEN -1 ELSE SetMin(c)

FindContainerAttr(lines, i) ==
    LET c == { k \in i..(Len(lines) - 1) : IncludesTag(At(lines, k), <<"container">>) }
    IN  IF c = {} THEN -1 ELSE SetMin(c)

\* the text put in: a line break, eight spaces, the asset, a line break, six spaces
Spliced(assetCode) ==
    <<[assetCode[1] EXCEPT !.ind = 8]>> \o Tail(assetCode) \o <<BlankLine(6)>>

\* the two pieces of a line cut after its first ">" (the second piece is
\* empty when the ">" ends the line) and before its "</div>"
CutAfterGt(line) ==
    IF line.k = "inline"
    THEN << Line("opentext", line.el, line.attrs, line.ind, <<>>),
            Line("textclose", line.el, <<>>, 0, line.txt) >>
    ELSE << line >>

CutBeforeClose(line) ==
    IF line.k = "inline"
    THEN << Line("opentext", line.el, line.attrs, line.ind, line.txt),
            Line("close", line.el, <<>>, 0, <<>>) >>
    ELSE << BlankLine(line.ind), [line EXCEPT !.ind = 0] >>

\* joins the text before the cut, the splice and the text after the cut; the
\* six spaces that end the splice become the indentation of what follows
JoinAt(lines, i, cut, assetCode) ==
    LET sp == Spliced(assetCode)
    IN  IF Len(cut) = 1
        THEN SubSeq(lines, 1, i) \o cut \o sp \o SubSeq(lines, i + 2, Len(lines))
        ELSE SubSeq(lines, 1, i) \o <<cut[1]>> \o SubSeq(sp, 1, Len(sp) - 1)
                 \o <<[cut[2] EXCEPT !.ind = 6]>> \o SubSeq(lines, i + 2, Len(lines))

insertAssetIntoComponent(content, assetCode) ==
    LET c == FindContainerAttr(content, 0)
        e == IF c = -1 THEN -1 ELSE FindTagEnd(content, c)
        \* the next ">" after the one that ends the container's tag
        sameLine == e # -1 /\ At(content, e).k = "inline"
        g == IF e = -1 THEN -1 ELSE IF sameLine THEN e ELSE FindTagEnd(content, e + 1)
        d == FindLastClosingDiv(content, Len(content) - 1)
        sp == Spliced(assetCode)
    IN  IF c # -1 /\ e # -1
        THEN IF g = -1
             \* indexOf gives -1: the insertion point is the start of the text
             THEN <<BlankLine(0)>> \o SubSeq(sp, 1, Len(sp) - 1)
                      \o <<[content[1] EXCEPT !.ind = @ + 6]>> \o Tail(content)
             ELSE IF sameLine THEN JoinAt(content, g, <<At(content, g)>>, assetCode)
             ELSE JoinAt(content, g, CutAfterGt(At(content, g)), assetCode)
        ELSE IF d > 0 \/ (d = 0 /\ At(content, d).ind > 0)
             THEN JoinAt(content, d, CutBeforeClose(At(content, d)), assetCode)
        ELSE content

(***************************************************************************)
(* Documents a user saves from the code editor.                            *)
(***************************************************************************)
\* a container div with one child paragraph
ScenarioDoc ==
    Header \o
    << OpenLine("div", <<Tag(<<"root">>)>>, 4),
       OpenLine("div", <<Tag(<<"container">>)>>, 6),
       InlineLine("p", <<Tag(<<"para">>)>>, 8, "Hello"),
       CloseLine("div", 6),
       CloseLine("div", 4) >> \o
    Footer

\* text only: no element at all
PlainDoc == Header \o << TextLine("null", 4) >> \o Footer

UserDocs == { ScenarioDoc, PlainDoc }

TagsIn(lines) == { LineTag(lines[i]) : i \in 1..Len(lines) } \ { NoTag }

TagOccurs(lines, id) == \E i \in 1..Len(lines) : IncludesTag(lines[i], id)

(***************************************************************************)
(* The handlers of the components panel, the assets panel and the code     *)
(* editor, each taken as one step.                                         *)
(***************************************************************************)
\* orig: for a removal that directly follows the insertion of the element it
\* removes, the source that insertion started from
Op(op, arg, before, after, report, orig) ==
    [op |-> op, arg |-> arg, before |-> before, after |-> after, report |-> report,
     orig |-> orig]

NoOp == Op("none", NoTag, <<>>, <<>>, "none", <<>>)

\* the editing session on the live document, before it begins
NoSelection == [element |-> -1, dataAttribute |-> <<>>]

DomOp(op, tag, live, property, value, before, prevLayers, repeat) ==
    [op |-> op, tag |-> tag, live |-> live, property |-> property, value |-> value,
     before |-> before, prevLayers |-> prevLayers, repeat |-> repeat]

NoDomOp == DomOp("none", <<>>, FALSE, "", "", <<>>, <<>>, FALSE)

DomIdle ==
    /\ dom = <<>>
    /\ layers = <<>>
    /\ projectLayers = <<>>
    /\ selectedElement = NoSelection
    /\ pendingReload = FALSE
    /\ fileOrigin = <<>>
    /\ edits = 0
    /\ domOp = NoDomOp

SyncIdle ==
    /\ syncPc = "idle"
    /\ pendingCode = <<>>
    /\ timers = {}
    /\ reloadAt = 0
    /\ clock = 0
    /\ canvasExposed = FALSE
    /\ editableElementsCount = 0
    /\ listening = {}
    /\ events = <<>>
    /\ visualEditingReady = FALSE
    /\ writtenAt = 0

\* a handler of the components panel between its steps: what it was called
\* with, the source it read, and the source it made of it
Cycle(pc, kind, arg, read, updated) ==
    [pc |-> pc, kind |-> kind, arg |-> arg, read |-> read, updated |-> updated]

NoCycle == Cycle("idle", "none", NoTag, <<>>, <<>>)

\* found: the content of the file when the handler's write replaced it
HandlerOp(op, h, read, found, wrote) ==
    [op |-> op, h |-> h, read |-> read, found |-> found, wrote |-> wrote]

NoHandlerOp == HandlerOp("none", 0, <<>>, <<>>, <<>>)

HandlersIdle ==
    /\ handlers = <<>>
    /\ handlerOp = NoHandlerOp

\* initialize() was not called, no project was started, the frame not loaded
NoBoot == [calls |-> 0, boots |-> 0, pending |-> 0, container |-> FALSE]

NoServerWait == [pc |-> "none", elapsed |-> 0, starts |-> 0, url |-> FALSE]

RuntimeIdle ==
    /\ boot = NoBoot
    /\ serverWait = NoServerWait
    /\ polls = <<>>
    /\ setupCalls = 0

\* the toolbar starts with 'select'; the listeners of a document that was set
\* up before the toolbar was used were made with 'select'
ToolIdle ==
    /\ currentTool = "select"
    /\ listenerTool = "select"
    /\ pendingSetups = <<>>

NoTab == [content |-> <<>>, modified |-> FALSE]

TabIdle ==
    /\ openTab = NoTab
    /\ saves = <<>>

ChatOp(action, reply, applied) == [action |-> action, reply |-> reply, applied |-> applied]

NoChatOp == ChatOp("none", "none", FALSE)

ChatIdle ==
    /\ panelExposed = FALSE
    /\ chatOp = NoChatOp

AuxIdle == RuntimeIdle /\ ToolIdle /\ TabIdle /\ ChatIdle

EngineInit ==
    /\ appTsx = getDefaultAppTemplate
    /\ now = 0
    /\ assigned = <<>>
    /\ selectedTag = NoTag
    /\ serviceExposed \in BOOLEAN
    /\ lastOp = NoOp
    /\ DomIdle
    /\ SyncIdle
    /\ HandlersIdle
    /\ AuxIdle

\* handleComponentClick: read App.tsx (or take the default template), add the
\* component, write the file
HandleComponentClick(component) ==
    /\ Len(assigned) < MaxAssign
    /\ LET currentAppContent == IF serviceExposed THEN appTsx ELSE getDefaultAppTemplate
           uniqueId == ComponentUniqueId(component, now)
           updatedAppContent ==
               addComponentToExistingApp(currentAppContent, component, selectedTag, now)
       IN  /\ appTsx' = updatedAppContent
           /\ assigned' = Append(assigned, uniqueId)
           /\ lastOp' = Op("insert", uniqueId, currentAppContent, updatedAppContent,
                           "success", <<>>)
    /\ UNCHANGED <<now, selectedTag, serviceExposed, domVars, syncVars, handlerVars, auxVars>>

\* handleRemoveComponent: without the service nothing happens; with it the
\* file is read, rewritten and written, and success is logged
HandleRemoveComponent(elementId) ==
    /\ IF serviceExposed
       THEN LET updatedAppContent == removeComponentFromApp(appTsx, elementId)
                undone == IF lastOp.op \in {"insert", "insertAsset"} /\ lastOp.arg = elementId
                             /\ lastOp.after = appTsx
                          THEN lastOp.before ELSE <<>>
            IN  /\ appTsx' = updatedAppContent
                /\ lastOp' = Op("remove", elementId, appTsx, updatedAppContent,
                                "success", undone)
       ELSE /\ appTsx' = appTsx
            /\ lastOp' = Op("removeSkipped", elementId, appTsx, appTsx, "none", <<>>)
    /\ UNCHANGED <<now, assigned, selectedTag, serviceExposed, domVars, syncVars, handlerVars, auxVars>>

\* handleInsertAsset: the tag comes from the asset's id, the content from the
\* panel's own template
HandleInsertAsset(asset) ==
    /\ Len(assigned) < MaxAssign
    /\ LET currentContent == AssetsCurrentAppContent
           updatedContent == insertAssetIntoComponent(currentContent, AssetCode(asset))
       IN  /\ appTsx' = updatedContent
           /\ assigned' = Append(assigned, AssetTag(asset))
           /\ lastOp' = Op("insertAsset", AssetTag(asset), currentContent, updatedContent,
                           "success", <<>>)
    /\ UNCHANGED <<now, selectedTag, serviceExposed, domVars, syncVars, handlerVars, auxVars>>

\* the code editor's handleSaveFile writes the tab's content
HandleSaveFile(doc) ==
    /\ appTsx # doc
    /\ appTsx' = doc
    /\ lastOp' = Op("save", NoTag, appTsx, doc, "success", <<>>)
    /\ UNCHANGED <<now, assigned, selectedTag, serviceExposed, domVars, syncVars, handlerVars, auxVars>>

\* a click on the canvas selects an element of the document, or nothing is selected
SelectElement(tag) ==
    /\ selectedTag # tag
    /\ selectedTag' = tag
    /\ UNCHANGED <<appTsx, now, assigned, serviceExposed, lastOp, domVars, syncVars, handlerVars, auxVars>>

\* a millisecond passes
Tick ==
    /\ now < MaxTime
    /\ now' = now + 1
    /\ UNCHANGED <<appTsx, assigned, selectedTag, serviceExposed, lastOp, domVars, syncVars, handlerVars, auxVars>>

\* the elements a user clicks on and the elements a user removes: those that
\* were inserted, and some elements of the templates
ClickTargets == { <<"title">> }

RemoveTargets == { <<"title">>, <<"para">> }

Range(s) == { s[i] : i \in 1..Len(s) }

EngineNext ==
    \/ \E component \in defaultComponents : HandleComponentClick(component)
    \/ \E elementId \in (TagsIn(appTsx) \cap (Range(assigned) \cup RemoveTargets))
                             \cup { <<"does-not-exist">> } :
           HandleRemoveComponent(elementId)
    \/ \E asset \in Assets : HandleInsertAsset(asset)
    \/ \E doc \in UserDocs : HandleSaveFile(doc)
    \/ \E tag \in (TagsIn(appTsx) \cap ClickTargets) \cup { NoTag } : SelectElement(tag)
    \/ Tick

SpecEngine == EngineInit /\ [][EngineNext]_vars

(***************************************************************************)
(* The handlers of the components panel, each taken as the two steps its   *)
(* awaits cut it into: up to the end of readFile, where it holds the       *)
(* source it read and the source it made of it, and up to the end of       *)
(* writeFile.  Nothing in the handlers, in handleCodeChange or in the      *)
(* service keeps a second handler from running between the two.            *)
(***************************************************************************)
MaxHandlers == 2    \* at most this many handlers are called in one session

CycleInit ==
    /\ appTsx = getDefaultAppTemplate
    /\ now = 0
    /\ assigned = <<>>
    /\ selectedTag = NoTag
    /\ serviceExposed = TRUE
    /\ lastOp = NoOp
    /\ DomIdle
    /\ SyncIdle
    /\ handlers = [h \in 1..MaxHandlers |-> NoCycle]
    /\ handlerOp = NoHandlerOp
    /\ AuxIdle

\* handleComponentClick up to onCodeChange: readFile returns the content of
\* the file, and the component is added to that content
ComponentClickReads(h, component) ==
    /\ handlers[h].pc = "idle"
    /\ LET currentAppContent == appTsx
           uniqueId == ComponentUniqueId(component, now)
           updatedAppContent ==
               addComponentToExistingApp(currentAppContent, component, selectedTag, now)
       IN  /\ handlers' = [handlers EXCEPT
                              ![h] = Cycle("read", "add", uniqueId, currentAppContent,
                                           updatedAppContent)]
           /\ assigned' = Append(assigned, uniqueId)
           /\ handlerOp' = HandlerOp("read", h, currentAppContent, appTsx, <<>>)
    /\ UNCHANGED <<appTsx, now, selectedTag, serviceExposed, lastOp, domVars, syncVars, auxVars>>

\* handleRemoveComponent up to onCodeChange
RemoveComponentReads(h, elementId) ==
    /\ handlers[h].pc = "idle"
    /\ LET currentAppContent == appTsx
           updatedAppContent == removeComponentFromApp(currentAppContent, elementId)
       IN  /\ handlers' = [handlers EXCEPT
                              ![h] = Cycle("read", "remove", elementId, currentAppContent,
                                           updatedAppContent)]
           /\ handlerOp' = HandlerOp("read", h, currentAppContent, appTsx, <<>>)
    /\ UNCHANGED <<appTsx, now, assigned, selectedTag, serviceExposed, lastOp, domVars,
                   syncVars, auxVars>>

\* handleCodeChange: writeFile replaces the content of the file by the
\* source the handler made
WriteFileCompletes(h) ==
    /\ handlers[h].pc = "read"
    /\ appTsx' = handlers[h].updated
    /\ handlers' = [handlers EXCEPT ![h].pc = "done"]
    /\ handlerOp' = HandlerOp("write", h, handlers[h].read, appTsx, handlers[h].updated)
    /\ UNCHANGED <<now, assigned, selectedTag, serviceExposed, lastOp, domVars, syncVars, auxVars>>

\* the elements of the file a user removes
RemovableNow == TagsIn(appTsx) \cap (Range(assigned) \cup RemoveTargets)

CycleNext ==
    \/ \E h \in 1..MaxHandlers, component \in defaultComponents :
           ComponentClickReads(h, component)
    \/ \E h \in 1..MaxHandlers, elementId \in RemovableNow :
           RemoveComponentReads(h, elementId)
    \/ \E h \in 1..MaxHandlers : WriteFileCompletes(h)
    \/ Tick

SpecCycle == CycleInit /\ [][CycleNext]_vars

\* C11: no two read-modify-write cycles on App.tsx interleave: a handler's
\* write replaces the very content the handler read, so that no edit that was
\* written in between is lost
C11_CyclesDoNotInterleave ==
    handlerOp.op = "write" => handlerOp.found = handlerOp.read

(***************************************************************************)
(* What the insertion and removal claims speak of: the element that a      *)
(* one-line tag opens, found by balancing opening against closing tags.    *)
(***************************************************************************)
\* how many elements a line leaves open
NestingDelta(line) ==
    CASE line.k \in {"open", "opentext", "oend"} -> 1
      [] line.k \in {"close", "textclose"} -> -1
      [] OTHER -> 0

\* the line (counted from 1) of the closing tag that matches the opening tag
\* on line i, 0 when there is none
RECURSIVE MatchingClose(_, _, _)
MatchingClose(lines, j, depth) ==
    IF j > Len(lines) THEN 0
    ELSE LET d == depth + NestingDelta(lines[j])
         IN  IF d = 0 THEN j ELSE MatchingClose(lines, j + 1, d)

\* the last line of the element written from line i on
ElementEnd(lines, i) ==
    IF lines[i].k \in {"void", "inline"} THEN i ELSE MatchingClose(lines, i, 0)

\* the nesting depth after the first j lines
NestingDepth(lines, j) ==
    Cardinality({ i \in 1..j : NestingDelta(lines[i]) = 1 })
        - Cardinality({ i \in 1..j : NestingDelta(lines[i]) = -1 })

\* no closing tag without its opening tag, no opening tag left open
NestingOk(lines) ==
    /\ \A j \in 1..Len(lines) : NestingDepth(lines, j) >= 0
    /\ NestingDepth(lines, Len(lines)) = 0

WellFormed(lines) == NestingOk(lines)

\* the sequence without its elements from..to
Without(lines, from, to) == SubSeq(lines, 1, from - 1) \o SubSeq(lines, to + 1, Len(lines))

LinesWithTag(lines, id) == { i \in 1..Len(lines) : IncludesTag(lines[i], id) }

(***************************************************************************)
(* The live document of the preview frame.  The elements that the app      *)
(* renders are kept in document order; each carries its identity (nid),    *)
(* its tag name, its nesting level below the mount point of the app, its   *)
(* attributes in order and the text of its own text nodes.  A reference to *)
(* an element that is no longer part of the document has identity 0.       *)
(***************************************************************************)
Node(nid, el, lvl, attrs, text) ==
    [nid |-> nid, el |-> el, lvl |-> lvl, attrs |-> attrs, text |-> text]

Detached == 0

HasAttr(attrs, name) == \E i \in 1..Len(attrs) : attrs[i].n = name

SetAttr(attrs, name, v) ==
    IF HasAttr(attrs, name)
    THEN [i \in 1..Len(attrs) |-> IF attrs[i].n = name THEN Attr(name, v) ELSE attrs[i]]
    ELSE Append(attrs, Attr(name, v))

RECURSIVE RemoveAttr(_, _)
RemoveAttr(attrs, name) ==
    IF attrs = <<>> THEN <<>>
    ELSE IF Head(attrs).n = name THEN RemoveAttr(Tail(attrs), name)
    ELSE <<Head(attrs)>> \o RemoveAttr(Tail(attrs), name)

\* the position of the element with identity nid, 0 when it is not in the document
IndexOf(d, nid) ==
    IF \E i \in 1..Len(d) : d[i].nid = nid
    THEN CHOOSE i \in 1..Len(d) : d[i].nid = nid
    ELSE 0

\* element.parentElement: 0 stands for the untagged mount point of the app
ParentIndex(d, i) ==
    LET c == { j \in 1..(i - 1) : d[j].lvl = d[i].lvl - 1 }
    IN  IF c = {} THEN 0 ELSE SetMax(c)

\* the position of the last descendant of element i (i itself when it has none)
SubtreeEnd(d, i) ==
    LET later == { j \in (i + 1)..Len(d) : d[j].lvl <= d[i].lvl }
    IN  IF later = {} THEN Len(d) ELSE SetMin(later) - 1

\* element.children, as positions in document order
Children(d, i) ==
    SortedSeq({ j \in (i + 1)..SubtreeEnd(d, i) : d[j].lvl = d[i].lvl + 1 })

\* element.textContent: the text of the element and of all its descendants
RECURSIVE TextFrom(_, _, _)
TextFrom(d, j, last) ==
    IF j > last THEN <<>>
    ELSE IF j = last THEN d[j].text
    ELSE TextFrom(d, j, (j + last) \div 2) \o TextFrom(d, (j + last) \div 2 + 1, last)

TextContent(d, i) == TextFrom(d, i, SubtreeEnd(d, i))

(***************************************************************************)
(* The runtime compiles App.tsx and mounts the result.  JSX writes the     *)
(* class attribute as className; comments and blank lines render nothing;  *)
(* text between the tags of an element becomes its text node.              *)
(***************************************************************************)
\* the name of a style property as the runtime writes it into an inline style
CssProp(jsxProp) ==
    CASE jsxProp = "fontSize" -> "font-size"
      [] jsxProp = "backgroundColor" -> "background-color"
      [] OTHER -> jsxProp

RECURSIVE InlineStyle(_)
InlineStyle(styleObject) ==
    IF Len(styleObject) < 2 THEN <<>>
    ELSE <<CssProp(styleObject[1]), styleObject[2]>> \o InlineStyle(Tail(Tail(styleObject)))

DomAttrs(attrs) ==
    [i \in 1..Len(attrs) |->
        IF attrs[i].n = "style" THEN Attr("style", InlineStyle(attrs[i].v))
        ELSE Attr(IF attrs[i].n = "className" THEN "class" ELSE attrs[i].n, attrs[i].v)]

\* text read at nesting level lvl belongs to the element that is open there
AddText(nodes, lvl, txt) ==
    LET c == { j \in 1..Len(nodes) : nodes[j].lvl = lvl - 1 }
    IN  IF c = {} THEN nodes
        ELSE [nodes EXCEPT ![SetMax(c)].text = @ \o txt]

\* the reading of one line: lvl is the nesting level, pend the tag that is
\* being read over several lines, nodes the elements mounted so far
MountStep(st, l) ==
    LET n == Len(st.nodes) + 1
        lvl == st.lvl
        pend == st.pend
        nodes == st.nodes
    IN  CASE l.k = "open" ->
               [lvl |-> lvl + 1, pend |-> pend,
                nodes |-> Append(nodes, Node(n, l.el, lvl, DomAttrs(l.attrs), <<>>))]
          [] l.k = "opentext" ->
               [lvl |-> lvl + 1, pend |-> pend,
                nodes |-> Append(nodes, Node(n, l.el, lvl, DomAttrs(l.attrs), l.txt))]
          [] l.k = "void" ->
               [lvl |-> lvl, pend |-> pend,
                nodes |-> Append(nodes, Node(n, l.el, lvl, DomAttrs(l.attrs), <<>>))]
          [] l.k = "inline" ->
               [lvl |-> lvl, pend |-> pend,
                nodes |-> Append(nodes, Node(n, l.el, lvl, DomAttrs(l.attrs), l.txt))]
          [] l.k = "close" -> [lvl |-> lvl - 1, pend |-> pend, nodes |-> nodes]
          [] l.k = "textclose" ->
               [lvl |-> lvl - 1, pend |-> pend, nodes |-> AddText(nodes, lvl, l.txt)]
          [] l.k = "text" -> [lvl |-> lvl, pend |-> pend, nodes |-> AddText(nodes, lvl, l.txt)]
          [] l.k = "ostart" ->
               [lvl |-> lvl, pend |-> [el |-> l.el, attrs |-> l.attrs], nodes |-> nodes]
          [] l.k = "attr" ->
               [lvl |-> lvl, pend |-> [pend EXCEPT !.attrs = @ \o l.attrs], nodes |-> nodes]
          [] l.k = "oend" ->
               [lvl |-> lvl + 1, pend |-> pend,
                nodes |-> Append(nodes, Node(n, pend.el, lvl, DomAttrs(pend.attrs), <<>>))]
          [] l.k = "vend" ->
               [lvl |-> lvl, pend |-> pend,
                nodes |-> Append(nodes, Node(n, pend.el, lvl, DomAttrs(pend.attrs), <<>>))]
          [] OTHER -> st

\* the lines from..to read one after the other, beginning in st: the first
\* half of them, then the second half; reading never takes an element away
RECURSIVE MountLoop(_, _, _, _)
MountLoop(lines, from, to, st) ==
    IF from > to THEN st
    ELSE IF from = to THEN MountStep(st, lines[from])
    ELSE LET mid == (from + to) \div 2
             half == MountLoop(lines, from, mid, st)
         IN  IF Len(half.nodes) < Len(st.nodes) THEN st
             ELSE MountLoop(lines, mid + 1, to, half)

Mount(lines) ==
    MountLoop(lines, 1, Len(lines), [lvl |-> 0, pend |-> [el |-> "", attrs |-> <<>>],
                                     nodes |-> <<>>]).nodes

(***************************************************************************)
(* The layers panel: updateLayersFromDOM and its helpers.                  *)
(***************************************************************************)
Tagged(node) == HasAttr(node.attrs, TagAttrName)

\* iframeDoc.querySelectorAll('[data-webstudio-element]'), as positions
QueryTagged(d, i) == SortedSeq({ j \in i..Len(d) : Tagged(d[j]) })

\* querySelector('[data-webstudio-element="root"]'), 0 when there is none
RootIndex(d) ==
    LET c == { i \in 1..Len(d) : AttrValue(d[i].attrs, TagAttrName) = <<"root">> }
    IN  IF c = {} THEN 0 ELSE SetMin(c)

\* the position in d of the first element tagged tag, 0 when there is none
TaggedIndex(d, tag) ==
    LET c == { i \in 1..Len(d) : AttrValue(d[i].attrs, TagAttrName) = tag }
    IN  IF c = {} THEN 0 ELSE SetMin(c)

\* the value of one property of an inline style, "" when it is not set
RECURSIVE StyleValue(_, _)
StyleValue(style, prop) ==
    IF Len(style) < 2 THEN ""
    ELSE IF style[1] = prop THEN style[2]
    ELSE StyleValue(Tail(Tail(style)), prop)

RECURSIVE DepthWalk(_, _, _)
DepthWalk(d, parent, depth) ==
    IF parent # 0 /\ parent # RootIndex(d) /\ Tagged(d[parent])
    THEN DepthWalk(d, ParentIndex(d, parent), depth + 1)
    ELSE depth

getElementDepth(d, i) == DepthWalk(d, ParentIndex(d, i), 0)

Digit(i) == <<"0", "1", "2", "3", "4", "5", "6", "7", "8", "9">>[i + 1]

Num(i) == IF i < 10 THEN Digit(i) ELSE Digit(i \div 10) \o Digit(i % 10)

\* the node that the forEach of updateLayersFromDOM builds for the element at
\* position i, the index-th of the tagged elements
LayerNode(d, i, index) ==
    LET attrValue == AttrValue(d[i].attrs, TagAttrName)
        dataAttr == IF attrValue # <<>> THEN attrValue ELSE <<"element", Num(index)>>
        parent == ParentIndex(d, i)
        parentDataAttr == IF parent = 0 THEN <<>>
                          ELSE AttrValue(d[parent].attrs, TagAttrName)
    IN  [id |-> <<"layer">> \o dataAttr \o <<Num(index)>>,
         type |-> d[i].el,
         element |-> d[i].nid,
         children |-> <<>>,
         visible |-> StyleValue(AttrValue(d[i].attrs, "style"), "display") # "none",
         locked |-> HasAttr(d[i].attrs, "data-locked"),
         dataAttribute |-> dataAttr,
         depth |-> getElementDepth(d, i),
         parentId |-> IF parentDataAttr # <<>> THEN <<"layer">> \o parentDataAttr ELSE <<>>,
         order |-> index]

LayerNodes(d) ==
    LET elements == QueryTagged(d, 1)
    IN  [k \in 1..Len(elements) |-> LayerNode(d, elements[k], k - 1)]

\* nodeMap.get(key): the last node that was set under the key, 0 when none was
NodeMapGet(nodes, key) ==
    LET c == { k \in 1..Len(nodes) : nodes[k].dataAttribute = key }
    IN  IF c = {} THEN 0 ELSE SetMax(c)

\* the node under which buildLayerHierarchy files node k, 0 for a root node
HierarchyParent(nodes, k) ==
    IF nodes[k].parentId = <<>> THEN 0
    ELSE NodeMapGet(nodes, Tail(nodes[k].parentId))

\* the nodes filed under node p (0: the root nodes); forEach visits the nodes
\* in the order of their index, so the lists it fills are sorted by order
RECURSIVE FiledUnder(_, _, _)
FiledUnder(nodes, p, k) ==
    LET filed == SortedSeq({ m \in k..Len(nodes) : HierarchyParent(nodes, m) = p })
    IN  IF filed = <<>> THEN <<>>
        ELSE [x \in 1..Len(filed) |->
                 [nodes[filed[x]] EXCEPT !.children = FiledUnder(nodes, filed[x], 1)]]

buildLayerHierarchy(nodes) == FiledUnder(nodes, 0, 1)

\* a scanner that would push the scanned nodes onto the list it already has
updateLayersFromDOM_Accumulating(d, prev) ==
    IF QueryTagged(d, 1) = <<>> THEN prev
    ELSE prev \o buildLayerHierarchy(LayerNodes(d))

\* updateLayersFromDOM: the layer list it sets; prev is the list before the
\* scan, kept when the document holds no tagged element
updateLayersFromDOM(d, prev) ==
    IF QueryTagged(d, 1) = <<>> THEN prev
    ELSE buildLayerHierarchy(LayerNodes(d))

(***************************************************************************)
(* The layers panel: generateJSXFromDOM and regenerateComponent.           *)
(***************************************************************************)
DataWebstudioNames == { "data-webstudio-element", "data-webstudio-selected" }

KeptNames == { "src", "alt", "href", "type", "placeholder", "id" }

\* the attribute strings the generator pushes, in the order of element.attributes
RECURSIVE GeneratedAttrs(_)
GeneratedAttrs(attrs) ==
    IF attrs = <<>> THEN <<>>
    ELSE LET a == Head(attrs)
         IN  (IF a.n = "class" THEN <<Attr("className", a.v)>>
              ELSE IF a.n \in DataWebstudioNames THEN <<a>>
              ELSE IF a.n \in KeptNames THEN <<a>>
              ELSE <<>>) \o GeneratedAttrs(Tail(attrs))

RECURSIVE generateJSXFromDOM(_, _, _)
RECURSIVE GenerateChildren(_, _, _)
generateJSXFromDOM(d, i, indent) ==
    LET attributes == GeneratedAttrs(d[i].attrs)
        childElements == SelectSeq(Children(d, i), LAMBDA j : Tagged(d[j]))
        textContent == IF d[i].text # <<>> THEN TextContent(d, i) ELSE <<>>
    IN  IF childElements = <<>> /\ textContent = <<>>
        THEN << VoidLine(d[i].el, attributes, indent) >>
        ELSE IF childElements = <<>>
        THEN << Line("inline", d[i].el, attributes, indent, textContent) >>
        ELSE << OpenLine(d[i].el, attributes, indent) >>
                 \o GenerateChildren(d, childElements, indent + 2)
                 \o << CloseLine(d[i].el, indent) >>

GenerateChildren(d, kids, indent) ==
    IF kids = <<>> THEN <<>>
    ELSE IF Len(kids) = 1 THEN generateJSXFromDOM(d, kids[1], indent)
    ELSE GenerateChildren(d, SubSeq(kids, 1, Len(kids) \div 2), indent)
             \o GenerateChildren(d, SubSeq(kids, Len(kids) \div 2 + 1, Len(kids)), indent)

GeneratorIndent == 4

\* the component code regenerateComponent writes; <<>> when it returns early
\* because the document has no root element
regenerateComponent(d) ==
    IF RootIndex(d) = 0 THEN <<>>
    ELSE Header \o generateJSXFromDOM(d, RootIndex(d), GeneratorIndent) \o Footer

(***************************************************************************)
(* Operations on elements of the live document.                            *)
(***************************************************************************)
\* the value a browser stores for a declaration
CssSerialize(value) == IF value = "#ff0000" THEN "rgb(255, 0, 0)" ELSE value

\* styleProperty.replace(/([A-Z])/g, '-$1').toLowerCase()
CssName(styleProperty) ==
    CASE styleProperty = "fontSize" -> "font-size"
      [] styleProperty = "backgroundColor" -> "background-color"
      [] OTHER -> styleProperty

RECURSIVE RemoveDecl(_, _)
RemoveDecl(style, prop) ==
    IF Len(style) < 2 THEN <<>>
    ELSE IF style[1] = prop THEN RemoveDecl(Tail(Tail(style)), prop)
    ELSE <<style[1], style[2]>> \o RemoveDecl(Tail(Tail(style)), prop)

RECURSIVE ReplaceDecl(_, _, _)
ReplaceDecl(style, prop, value) ==
    IF Len(style) < 2 THEN <<>>
    ELSE IF style[1] = prop THEN <<prop, value>> \o Tail(Tail(style))
    ELSE <<style[1], style[2]>> \o ReplaceDecl(Tail(Tail(style)), prop, value)

\* element.style.setProperty(prop, value): the empty value removes the declaration
SetStyle(attrs, prop, value) ==
    LET style == AttrValue(attrs, "style")
        new == IF value = "" THEN RemoveDecl(style, prop)
               ELSE IF StyleValue(style, prop) # "" THEN ReplaceDecl(style, prop, CssSerialize(value))
               ELSE style \o <<prop, CssSerialize(value)>>
    IN  IF value = "" /\ ~HasAttr(attrs, "style") THEN attrs
        ELSE SetAttr(attrs, "style", new)

\* the attributes of the element with identity nid, none for an element that
\* is not in the document
AttrsOf(d, nid) == IF IndexOf(d, nid) = 0 THEN <<>> ELSE d[IndexOf(d, nid)].attrs

\* the document after the element with identity nid is given the attributes;
\* an element that is not in the document changes nothing in it
PutAttrs(d, nid, attrs) ==
    [i \in 1..Len(d) |-> IF d[i].nid = nid THEN [d[i] EXCEPT !.attrs = attrs] ELSE d[i]]

\* the document without the descendants of the element at position i
WithoutDescendants(d, i) == SubSeq(d, 1, i) \o SubSeq(d, SubtreeEnd(d, i) + 1, Len(d))

\* element.textContent = value: the children give way to one text node
SetTextContent(d, nid, value) ==
    LET i == IndexOf(d, nid)
    IN  IF i = 0 THEN d
        ELSE [WithoutDescendants(d, i) EXCEPT ![i].text = IF value = "" THEN <<>> ELSE <<value>>]

\* element.remove()
RemoveElement(d, nid) ==
    LET i == IndexOf(d, nid)
    IN  IF i = 0 THEN d
        ELSE SubSeq(d, 1, i - 1) \o SubSeq(d, SubtreeEnd(d, i) + 1, Len(d))

LiveNids(d) == { d[i].nid : i \in 1..Len(d) }

\* references to elements that left the document become references to
\* detached elements
RECURSIVE ScrubLayers(_, _)
ScrubLayers(ls, d) ==
    [k \in 1..Len(ls) |->
        [ls[k] EXCEPT !.element = IF @ \in LiveNids(d) THEN @ ELSE Detached,
                      !.children = ScrubLayers(@, d)]]

ScrubSelection(sel, d) ==
    IF sel.element \in LiveNids(d) \/ sel.element < 0 THEN sel
    ELSE [sel EXCEPT !.element = Detached]

\* every node of a layer list, parents before children
RECURSIVE FlattenLayers(_)
FlattenLayers(ls) ==
    IF ls = <<>> THEN <<>>
    ELSE <<Head(ls)>> \o FlattenLayers(Head(ls).children) \o FlattenLayers(Tail(ls))

\* updateLayers of handleToggleVisibility
RECURSIVE updateLayers(_, _, _)
updateLayers(ls, id, newVisibility) ==
    [k \in 1..Len(ls) |->
        IF ls[k].id = id THEN [ls[k] EXCEPT !.visible = newVisibility]
        ELSE IF ls[k].children # <<>>
             THEN [ls[k] EXCEPT !.children = updateLayers(@, id, newVisibility)]
        ELSE ls[k]]

\* removeLayers of handleDeleteLayer
RECURSIVE removeLayers(_, _)
removeLayers(ls, id) ==
    IF ls = <<>> THEN <<>>
    ELSE IF Head(ls).id = id THEN removeLayers(Tail(ls), id)
    ELSE << [Head(ls) EXCEPT !.children = removeLayers(@, id)] >> \o removeLayers(Tail(ls), id)

\* the design-system panel writes its own import line into the component
DesignHeader ==
    << TextLine("import React from 'react'", 0), TextLine("import './design-system.css'", 0),
       BlankLine(0), TextLine("function App() {", 0), TextLine("return (", 2) >>

regenerateWithDesignSystem(d) ==
    IF RootIndex(d) = 0 THEN <<>>
    ELSE DesignHeader \o generateJSXFromDOM(d, RootIndex(d), GeneratorIndent) \o Footer

\* WebContainerService.generateAppComponent: the default component, whatever
\* the document is
generateAppComponent == getDefaultAppTemplate

(***************************************************************************)
(* The editing session on the live document: the layers panel, the         *)
(* property editor, the design-system panel, the code editor and the       *)
(* runtime that reloads the preview after a write to App.tsx.              *)
(***************************************************************************)
\* a document with a tagged paragraph inside a wrapper that carries no tag
WrapperDoc ==
    Header \o
    << OpenLine("div", <<Tag(<<"root">>)>>, 4),
       OpenLine("div", <<Cls("wrapper")>>, 6),
       InlineLine("p", <<Tag(<<"para">>)>>, 8, "Hello"),
       CloseLine("div", 6),
       VoidLine("img", <<Tag(<<"logo">>), Attr("src", <<"logo.png">>)>>, 6),
       CloseLine("div", 4) >> \o
    Footer

\* a tagged paragraph inside an untagged wrapper inside a tagged section
NestedWrapperDoc ==
    Header \o
    << OpenLine("div", <<Tag(<<"root">>)>>, 4),
       OpenLine("section", <<Tag(<<"section">>)>>, 6),
       OpenLine("div", <<Cls("wrapper")>>, 8),
       InlineLine("p", <<Tag(<<"para">>)>>, 10, "Hello"),
       CloseLine("div", 8),
       CloseLine("section", 6),
       CloseLine("div", 4) >> \o
    Footer

EditorDocs == { ScenarioDoc, WrapperDoc, NestedWrapperDoc, PlainDoc }

\* the property edits of the properties panel
PropertyEdits ==
    { <<"style.color", "#ff0000">>, <<"style.fontSize", "20px">>,
      <<"textContent", "Hi">>, <<"id", "main">> }

\* the colour tokens of the design system
ColorTokens == { [name |-> "danger", value |-> "#ff0000"] }

\* the layers a user works on
LayerTargets == { <<"root">>, <<"title">>, <<"para">> }

DomInit ==
    /\ appTsx = getDefaultAppTemplate
    /\ dom = Mount(getDefaultAppTemplate)
    /\ layers = <<>>
    /\ projectLayers = <<>>
    /\ selectedElement = NoSelection
    /\ pendingReload = FALSE
    /\ fileOrigin = <<>>
    /\ edits = 0
    /\ domOp = NoDomOp
    /\ now = 0
    /\ assigned = <<>>
    /\ selectedTag = NoTag
    /\ serviceExposed = TRUE
    /\ lastOp = NoOp
    /\ SyncIdle
    /\ HandlersIdle
    /\ AuxIdle

\* onProjectUpdate of updateLayersFromDOM: the project takes the scanned
\* layers when the scan went through and found some
ProjectLayersAfterScan(d, prev) ==
    IF QueryTagged(d, 1) # <<>> THEN updateLayersFromDOM(d, <<>>) ELSE prev

\* the "Refresh layers" button: updateLayersFromDOM
RefreshLayers ==
    /\ layers' = updateLayersFromDOM(dom, layers)
    /\ projectLayers' = ProjectLayersAfterScan(dom, projectLayers)
    /\ domOp' = DomOp("scan", <<>>, FALSE, "", "", <<>>, layers, domOp.op = "scan")
    /\ UNCHANGED <<appTsx, dom, selectedElement, pendingReload, fileOrigin, edits, panelVars, syncVars, handlerVars, auxVars>>

\* the sidebar shows the layers panel: its two effects run on mount, the
\* first takes the project's stored layers or scans, the second scans when
\* an element is selected
MountLayersPanel ==
    LET first == IF projectLayers # <<>> THEN projectLayers
                 ELSE updateLayersFromDOM(dom, <<>>)
        scanned == projectLayers = <<>> \/ selectedElement # NoSelection
    IN  /\ layers' = IF selectedElement # NoSelection
                     THEN updateLayersFromDOM(dom, first) ELSE first
        /\ projectLayers' = IF scanned THEN ProjectLayersAfterScan(dom, projectLayers)
                            ELSE projectLayers
        /\ domOp' = DomOp("mountPanel", <<>>, FALSE, "", "", <<>>, <<>>, FALSE)
        /\ UNCHANGED <<appTsx, dom, selectedElement, pendingReload, fileOrigin, edits, panelVars, syncVars, handlerVars, auxVars>>

\* removeAttribute('data-webstudio-selected') on every element of the document
ClearSelected(d) == [i \in 1..Len(d) |-> [d[i] EXCEPT !.attrs = RemoveAttr(@, "data-webstudio-selected")]]

\* handlers that go on whatever the layer is
ReturnsEarly_Never(node) == FALSE

\* `if (!node.element || node.locked) return` of the handlers of the layers
\* panel; every layer node has an element

ReturnsEarly(node) == node.locked

\* the handler returned at once: nothing but the record of the call changes
Returned(node, handler) ==
    /\ domOp' = DomOp("returned", node.dataAttribute, node.element # Detached, handler, "",
                      <<>>, <<>>, FALSE)
    /\ UNCHANGED <<appTsx, dom, layers, projectLayers, selectedElement, pendingReload,
                   fileOrigin, edits, panelVars, syncVars, handlerVars, auxVars>>

\* handleLayerClick, and the panel's effect on selectedElement?.element
HandleLayerClick(node) ==
    IF ReturnsEarly(node)
    THEN Returned(node, "select")
    ELSE /\ LET marked == PutAttrs(ClearSelected(dom), node.element,
                                 SetAttr(AttrsOf(ClearSelected(dom), node.element), "data-webstudio-selected", <<"true">>))
                changed == IF node.element = Detached /\ selectedElement.element = Detached
                           THEN BOOLEAN
                           ELSE { node.element # selectedElement.element }
            IN  /\ dom' = marked
                /\ selectedElement' = [element |-> node.element, dataAttribute |-> node.dataAttribute]
                /\ \E rescan \in changed :
                      /\ layers' = IF rescan THEN updateLayersFromDOM(marked, layers) ELSE layers
                      /\ projectLayers' = IF rescan THEN ProjectLayersAfterScan(marked, projectLayers)
                                          ELSE projectLayers
                /\ domOp' = DomOp("select", node.dataAttribute, node.element # Detached, "", "",
                                  <<>>, <<>>, FALSE)
         /\ UNCHANGED <<appTsx, pendingReload, fileOrigin, edits, panelVars, syncVars, handlerVars, auxVars>>

\* regenerateComponent of the layers panel, run on document d: the file, the
\* pending reload and the document the file was generated from
Regenerated(d, code) ==
    /\ appTsx' = IF code = <<>> THEN appTsx ELSE code
    /\ pendingReload' = (pendingReload \/ code # <<>>)
    /\ fileOrigin' = IF code = <<>> THEN fileOrigin ELSE d

\* handleToggleVisibility
HandleToggleVisibility(node) ==
    IF ReturnsEarly(node)
    THEN Returned(node, "toggle")
    ELSE /\ edits < MaxEdits
         /\ LET newVisibility == ~node.visible
                shown == PutAttrs(dom, node.element,
                                 SetStyle(AttrsOf(dom, node.element), "display",
                                          IF newVisibility THEN "" ELSE "none"))
                updatedLayers == updateLayers(layers, node.id, newVisibility)
            IN  /\ dom' = shown
                /\ layers' = updatedLayers
                /\ projectLayers' = updatedLayers
                /\ Regenerated(shown, regenerateComponent(shown))
                /\ domOp' = DomOp("toggle", node.dataAttribute, node.element # Detached, "", "",
                                  <<>>, <<>>, FALSE)
         /\ edits' = edits + 1
         /\ UNCHANGED <<selectedElement, panelVars, syncVars, handlerVars, auxVars>>

\* handleDeleteLayer, the confirmation given
HandleDeleteLayer(node) ==
    IF ReturnsEarly(node)
    THEN Returned(node, "delete")
    ELSE /\ edits < MaxEdits
         /\ LET removed == RemoveElement(dom, node.element)
                updatedLayers == ScrubLayers(removeLayers(layers, node.id), removed)
            IN  /\ dom' = removed
                /\ layers' = updatedLayers
                /\ projectLayers' = updatedLayers
                /\ selectedElement' = ScrubSelection(selectedElement, removed)
                /\ Regenerated(removed, regenerateComponent(removed))
                /\ domOp' = DomOp("delete", node.dataAttribute, node.element # Detached, "", "",
                                  <<>>, <<>>, FALSE)
         /\ edits' = edits + 1
         /\ UNCHANGED <<panelVars, syncVars, handlerVars, auxVars>>

\* what handleElementUpdate does to the document
ApplyProperty(d, nid, property, value) ==
    CASE property = "style.color" ->
            PutAttrs(d, nid,
                            SetStyle(AttrsOf(d, nid), CssName("color"), value))
      [] property = "style.fontSize" ->
            PutAttrs(d, nid,
                            SetStyle(AttrsOf(d, nid), CssName("fontSize"), value))
      [] property = "textContent" -> SetTextContent(d, nid, value)
      [] property = "id" -> PutAttrs(d, nid,
                            SetAttr(AttrsOf(d, nid), "id", <<value>>))
      [] property = "className" -> PutAttrs(d, nid,
                            SetAttr(AttrsOf(d, nid), "class", <<value>>))
      [] OTHER -> d

\* handleElementUpdate of the studio: the change is applied to the selected
\* element, projectService.updateElement stamps the project, and
\* webContainerService.updateProject writes generateAppComponent(project);
\* the preview is being served, so getServerUrl() is set.  thrown: writeFile
\* rejects, updateProject throws the error on, and the catch of the handler
\* logs it and sets the status message; the file is not written
HandleElementUpdate(property, value) ==
    /\ selectedElement # NoSelection
    /\ edits < MaxEdits
    /\ \E thrown \in BOOLEAN :
          /\ LET edited == ApplyProperty(dom, selectedElement.element, property, value)
             IN  /\ dom' = edited
                 /\ layers' = ScrubLayers(layers, edited)
                 /\ projectLayers' = ScrubLayers(projectLayers, edited)
                 /\ domOp' = DomOp(IF thrown THEN "elementUpdateThrown" ELSE "elementUpdate",
                                   selectedElement.dataAttribute,
                                   selectedElement.element # Detached, property, value,
                                   IF thrown THEN dom ELSE <<>>, <<>>, FALSE)
          /\ appTsx' = IF thrown THEN appTsx ELSE generateAppComponent
          /\ pendingReload' = (pendingReload \/ ~thrown)
          /\ fileOrigin' = IF thrown THEN fileOrigin ELSE <<>>
    /\ edits' = edits + 1
    /\ UNCHANGED <<selectedElement, panelVars, syncVars, handlerVars, auxVars>>

\* handleApplyTokenToElement on the colours tab
HandleApplyTokenToElement(token) ==
    /\ selectedElement # NoSelection
    /\ edits < MaxEdits
    /\ LET coloured == PutAttrs(dom, selectedElement.element,
                            SetStyle(AttrsOf(dom, selectedElement.element), "color", token.value))
       IN  /\ dom' = coloured
           /\ Regenerated(coloured, regenerateWithDesignSystem(coloured))
           /\ domOp' = DomOp("applyToken", selectedElement.dataAttribute,
                             selectedElement.element # Detached, "style.color", token.value,
                             dom, <<>>, FALSE)
    /\ edits' = edits + 1
    /\ UNCHANGED <<layers, projectLayers, selectedElement, panelVars, syncVars, handlerVars, auxVars>>

\* the code editor saves a document while the preview is shown
SaveFromEditor(doc) ==
    /\ appTsx # doc
    /\ appTsx' = doc
    /\ pendingReload' = TRUE
    /\ fileOrigin' = <<>>
    /\ domOp' = DomOp("save", <<>>, FALSE, "", "", <<>>, <<>>, FALSE)
    /\ UNCHANGED <<dom, layers, projectLayers, selectedElement, edits, panelVars, syncVars, handlerVars, auxVars>>

\* the runtime picks up the written file and mounts it: every element of the
\* document is new, the old ones are detached
Reload ==
    /\ pendingReload
    /\ WellFormed(appTsx)
    /\ LET mounted == Mount(appTsx)
       IN  /\ dom' = mounted
           /\ layers' = ScrubLayers(layers, <<>>)
           /\ projectLayers' = ScrubLayers(projectLayers, <<>>)
           /\ selectedElement' = ScrubSelection(selectedElement, <<>>)
           /\ domOp' = DomOp("reload", <<>>, fileOrigin # <<>>, "", "", fileOrigin, <<>>, FALSE)
    /\ pendingReload' = FALSE
    /\ UNCHANGED <<appTsx, fileOrigin, edits, panelVars, syncVars, handlerVars, auxVars>>

TargetLayers(ls) ==
    { n \in Range(FlattenLayers(ls)) : n.dataAttribute \in LayerTargets }

DomNext ==
    \/ RefreshLayers
    \/ MountLayersPanel
    \/ \E node \in TargetLayers(layers) : HandleLayerClick(node)
    \/ \E node \in TargetLayers(layers) : HandleToggleVisibility(node)
    \/ \E node \in TargetLayers(layers) : HandleDeleteLayer(node)
    \/ \E edit \in PropertyEdits : HandleElementUpdate(edit[1], edit[2])
    \/ \E token \in ColorTokens : HandleApplyTokenToElement(token)
    \/ \E doc \in EditorDocs : SaveFromEditor(doc)
    \/ Reload

SpecDom == DomInit /\ [][DomNext]_vars

(***************************************************************************)
(* The layers panel with duplication, element creation and locking: its    *)
(* scanner keeps a flat list sorted by depth, its generator writes inline  *)
(* styles as style objects.                                                *)
(***************************************************************************)
RECURSIVE DepthWalkFlat(_, _, _)
DepthWalkFlat(d, parent, depth) ==
    IF parent # 0 /\ Tagged(d[parent])
    THEN DepthWalkFlat(d, ParentIndex(d, parent), depth + 1)
    ELSE depth

getElementDepthFlat(d, i) == DepthWalkFlat(d, ParentIndex(d, i), 0)

LayerNodeFlat(d, i, index) ==
    LET attrValue == AttrValue(d[i].attrs, TagAttrName)
    IN  [id |-> <<"layer", Num(index)>>,
         type |-> d[i].el,
         element |-> d[i].nid,
         children |-> <<>>,
         visible |-> StyleValue(AttrValue(d[i].attrs, "style"), "display") # "none",
         locked |-> HasAttr(d[i].attrs, "data-locked"),
         dataAttribute |-> IF attrValue # <<>> THEN attrValue ELSE <<"element", Num(index)>>,
         depth |-> getElementDepthFlat(d, i)]

\* nodes.sort((a, b) => a.depth - b.depth): a stable sort, depth by depth
RECURSIVE SortByDepth(_, _)
SortByDepth(nodes, depth) ==
    IF \A k \in 1..Len(nodes) : nodes[k].depth < depth THEN <<>>
    ELSE SelectSeq(nodes, LAMBDA n : n.depth = depth) \o SortByDepth(nodes, depth + 1)

buildLayerHierarchyFlat(nodes) == SortByDepth(nodes, 0)

updateLayersFromDOMFlat(d) ==
    LET elements == QueryTagged(d, 1)
    IN  buildLayerHierarchyFlat([k \in 1..Len(elements) |-> LayerNodeFlat(d, elements[k], k - 1)])

\* prop.trim().replace(/-([a-z])/g, (g) => g[1].toUpperCase())
JsxProp(prop) ==
    CASE prop = "font-size" -> "fontSize"
      [] prop = "background-color" -> "backgroundColor"
      [] OTHER -> prop

\* the declarations of a style attribute as the entries of a style object
RECURSIVE StyleObject(_)
StyleObject(style) ==
    IF Len(style) < 2 THEN <<>>
    ELSE <<JsxProp(style[1]), style[2]>> \o StyleObject(Tail(Tail(style)))

DataNames == DataWebstudioNames \cup { "data-locked" }

KeptNamesStyled == { "src", "alt", "href", "type", "placeholder" }

RECURSIVE GeneratedAttrsStyled(_)
GeneratedAttrsStyled(attrs) ==
    IF attrs = <<>> THEN <<>>
    ELSE LET a == Head(attrs)
         IN  (IF a.n = "class" THEN <<Attr("className", a.v)>>
              ELSE IF a.n \in DataNames THEN <<a>>
              ELSE IF a.n = "style" /\ a.v # <<>>
                   THEN IF StyleObject(a.v) # <<>> THEN <<Attr("style", StyleObject(a.v))>>
                        ELSE <<>>
              ELSE IF a.n \in KeptNamesStyled THEN <<a>>
              ELSE <<>>) \o GeneratedAttrsStyled(Tail(attrs))

VoidTags == { "img", "input", "br", "hr" }

RECURSIVE generateJSXFromDOMStyled(_, _, _)
RECURSIVE GenerateChildrenStyled(_, _, _)
generateJSXFromDOMStyled(d, i, indent) ==
    LET attributes == GeneratedAttrsStyled(d[i].attrs)
        childElements == SelectSeq(Children(d, i), LAMBDA j : Tagged(d[j]))
        textContent == d[i].text
    IN  IF childElements # <<>>
        THEN << OpenLine(d[i].el, attributes, indent) >>
                 \o GenerateChildrenStyled(d, childElements, indent + 2)
                 \o << CloseLine(d[i].el, indent) >>
        ELSE IF textContent # <<>>
        THEN << OpenLine(d[i].el, attributes, indent),
                Line("text", "", <<>>, indent + 2, textContent),
                CloseLine(d[i].el, indent) >>
        ELSE IF d[i].el \in VoidTags
        THEN << VoidLine(d[i].el, attributes, indent) >>
        ELSE << Line("inline", d[i].el, attributes, indent, <<>>) >>

GenerateChildrenStyled(d, kids, indent) ==
    IF kids = <<>> THEN <<>>
    ELSE IF Len(kids) = 1 THEN generateJSXFromDOMStyled(d, kids[1], indent)
    ELSE GenerateChildrenStyled(d, SubSeq(kids, 1, Len(kids) \div 2), indent)
             \o GenerateChildrenStyled(d, SubSeq(kids, Len(kids) \div 2 + 1, Len(kids)), indent)

\* the generated JSX begins with its own indentation and is set after four
\* more spaces in the component code; <<>> when there is no root element
regenerateComponentStyled(d) ==
    IF RootIndex(d) = 0 THEN <<>>
    ELSE LET jsx == generateJSXFromDOMStyled(d, RootIndex(d), GeneratorIndent)
         IN  Header \o <<[jsx[1] EXCEPT !.ind = @ + GeneratorIndent]>> \o Tail(jsx) \o Footer

\* an identity no element of the document has
FreshNid(d) == IF d = <<>> THEN 1 ELSE SetMax(LiveNids(d)) + 1

\* cloneNode(true) of the element at position i, tagged anew, inserted after it
CloneAfter(d, i, newDataAttr) ==
    LET last == SubtreeEnd(d, i)
        base == FreshNid(d) - 1
        clone == [k \in 1..(last - i + 1) |->
                     [d[i + k - 1] EXCEPT !.nid = base + k,
                                          !.attrs = IF k = 1 THEN SetAttr(@, TagAttrName, newDataAttr)
                                                    ELSE @]]
    IN  SubSeq(d, 1, last) \o clone \o SubSeq(d, last + 1, Len(d))

\* parentElement.appendChild(newElement)
AppendChild(d, p, el, attrs, text) ==
    LET last == SubtreeEnd(d, p)
    IN  SubSeq(d, 1, last) \o << Node(FreshNid(d), el, d[p].lvl + 1, attrs, text) >>
            \o SubSeq(d, last + 1, Len(d))

\* the element handleAddElement creates for an element type
NewElementAttrs(elementType, elementId) ==
    << Attr(TagAttrName, elementId) >> \o
    (CASE elementType = "button" -> << Attr("class", <<"px-4">>) >>
       [] elementType = "img" -> << Attr("class", <<"max-w-full">>),
                                    Attr("src", <<"https://via.placeholder.com/400x200">>),
                                    Attr("alt", <<"Placeholder image">>) >>
       [] OTHER -> <<>>)

NewElementText(elementType) ==
    CASE elementType = "button" -> <<"Click me">>
      [] elementType = "img" -> <<>>
      [] OTHER -> <<"New", elementType>>

(***************************************************************************)
(* The edit cycle in time: a handler runs up to its await, the file write  *)
(* completes, the runtime reloads after a latency of its own, and timers   *)
(* fire when their delay has passed.  Time is counted in milliseconds and  *)
(* advances in steps of TickMs.                                            *)
(***************************************************************************)
TickMs == 500

PanelTimerDelay == 1500

SetupTimerDelay == 1000

\* how long the runtime takes from a write to the reloaded document
ReloadLatencies == { 500, 3000 }

ElementTypes == { "button" }

\* the component of the library that is clicked in the timed edit cycle
SyncComponents == { c \in defaultComponents : c.id = "button-primary" }

Event(edit, ev) == [edit |-> edit, ev |-> ev]

Timer(kind, at, edit) == [kind |-> kind, at |-> at, edit |-> edit]

\* Date.now() at the current time
DateNow == clock \div TickMs

\* the tagged elements that have no tagged ancestor
RECURSIVE HasTaggedAncestor(_, _)
HasTaggedAncestor(d, i) ==
    LET p == ParentIndex(d, i)
    IN  IF p = 0 THEN FALSE
        ELSE Tagged(d[p]) \/ HasTaggedAncestor(d, p)

\* the scan of setupVisualEditing: every tagged element is replaced by a deep
\* clone of itself, in document order.  The first replacement of an outer
\* element takes its tagged descendants out of the document, so the later
\* replacements of those descendants happen in the detached tree: in the
\* document every element at or below a tagged element is new, and only the
\* clones of the outermost tagged elements carry a click listener.
ReplacedByClones(d) ==
    [i \in 1..Len(d) |->
        IF Tagged(d[i]) \/ HasTaggedAncestor(d, i)
        THEN [d[i] EXCEPT !.nid = FreshNid(d) - 1 + i]
        ELSE d[i]]

Listeners(d) ==
    { d[i].nid : i \in { j \in 1..Len(d) : Tagged(d[j]) /\ ~HasTaggedAncestor(d, j) } }

SyncInit ==
    /\ appTsx = getDefaultAppTemplate
    /\ dom = ReplacedByClones(Mount(getDefaultAppTemplate))
    /\ listening = Listeners(ReplacedByClones(Mount(getDefaultAppTemplate)))
    /\ editableElementsCount = Len(QueryTagged(Mount(getDefaultAppTemplate), 1))
    /\ layers = <<>>
    /\ projectLayers = <<>>
    /\ selectedElement = NoSelection
    /\ pendingReload = FALSE
    /\ fileOrigin = <<>>
    /\ edits = 0
    /\ domOp = NoDomOp
    /\ now = 0
    /\ assigned = <<>>
    /\ selectedTag = NoTag
    /\ serviceExposed = TRUE
    /\ lastOp = NoOp
    /\ syncPc = "idle"
    /\ pendingCode = <<>>
    /\ timers = {}
    /\ reloadAt = 0
    /\ clock = 0
    /\ canvasExposed \in BOOLEAN
    /\ events = <<>>
    /\ visualEditingReady = TRUE
    /\ writtenAt = 0
    /\ HandlersIdle
    /\ AuxIdle

\* what a handler of the layers panel does after it changed the document to
\* d: updateLayersFromDOM(), then regenerateComponent() up to its await
ScanThenRegenerate(d) ==
    LET code == regenerateComponentStyled(d)
    IN  /\ dom' = d
        /\ layers' = updateLayersFromDOMFlat(d)
        /\ pendingCode' = code
        /\ syncPc' = IF code = <<>> THEN "idle" ELSE "writingLayers"
        /\ events' = events \o <<Event(edits + 1, "rescan")>>
                         \o (IF code = <<>> THEN <<>> ELSE <<Event(edits + 1, "regenerate")>>)
        /\ edits' = edits + 1

\* handleAddElement, up to the await of the write
HandleAddElement(elementType) ==
    /\ syncPc = "idle"
    /\ edits < MaxSyncEdits
    /\ LET container == TaggedIndex(dom, <<"container">>)
           parentElement == IF selectedElement # NoSelection
                            THEN IndexOf(dom, selectedElement.element)
                            ELSE IF container # 0 THEN container ELSE RootIndex(dom)
           elementId == <<"new", elementType, Stamp(DateNow)>>
       IN  /\ parentElement # 0
           /\ ScanThenRegenerate(AppendChild(dom, parentElement, elementType,
                                             NewElementAttrs(elementType, elementId),
                                             NewElementText(elementType)))
    /\ UNCHANGED <<handlerVars, auxVars, visualEditingReady, writtenAt, appTsx, projectLayers, selectedElement, pendingReload, fileOrigin, domOp,
                   panelVars, timers, reloadAt, clock, canvasExposed, editableElementsCount,
                   listening>>

\* handleDuplicateLayer, up to the await of the write
HandleDuplicateLayer(node) ==
    /\ syncPc = "idle"
    /\ edits < MaxSyncEdits
    /\ LET i == IndexOf(dom, node.element)
           newDataAttr == node.dataAttribute \o <<"copy", Stamp(DateNow)>>
       IN  ScanThenRegenerate(IF i = 0 THEN dom ELSE CloneAfter(dom, i, newDataAttr))
    /\ UNCHANGED <<handlerVars, auxVars, visualEditingReady, writtenAt, appTsx, projectLayers, selectedElement, pendingReload, fileOrigin, domOp,
                   panelVars, timers, reloadAt, clock, canvasExposed, editableElementsCount,
                   listening>>

\* handleComponentClick, up to the await of the write
HandleComponentClickStart(component) ==
    /\ syncPc = "idle"
    /\ edits < MaxSyncEdits
    /\ pendingCode' = addComponentToExistingApp(
                          IF serviceExposed THEN appTsx ELSE getDefaultAppTemplate,
                          component, selectedTag, DateNow)
    /\ syncPc' = "writingComponent"
    /\ events' = Append(events, Event(edits + 1, "regenerate"))
    /\ edits' = edits + 1
    /\ UNCHANGED <<handlerVars, auxVars, visualEditingReady, writtenAt, appTsx, dom, layers, projectLayers, selectedElement, pendingReload,
                   fileOrigin, domOp, panelVars, timers, reloadAt, clock, canvasExposed,
                   editableElementsCount, listening>>

\* handleCodeChange: the write to the runtime completes; the runtime will have
\* reloaded after one of its latencies.  handleComponentClick goes on after
\* its await and sets the timer of the canvas re-scan.
WriteCompletes ==
    /\ syncPc \in { "writingLayers", "writingComponent" }
    /\ appTsx' = pendingCode
    /\ pendingReload' = TRUE
    /\ \E latency \in ReloadLatencies : reloadAt' = clock + latency
    /\ events' = Append(events, Event(edits, "write"))
    /\ timers' = IF syncPc = "writingComponent"
                 THEN timers \cup { Timer("panel", clock + PanelTimerDelay, edits) }
                 ELSE timers
    /\ syncPc' = "idle"
    /\ pendingCode' = <<>>
    /\ writtenAt' = clock
    /\ UNCHANGED <<handlerVars, auxVars, visualEditingReady, dom, layers, projectLayers, selectedElement, fileOrigin, edits, domOp,
                   panelVars, clock, canvasExposed, editableElementsCount, listening>>

\* the timer of the components panel: webStudioCanvas?.setupVisualEditing(),
\* which sets its own timer for the scan
PanelTimerFires(t) ==
    /\ t.kind = "panel"
    /\ t.at <= clock
    /\ timers' = (timers \ {t}) \cup
                 (IF canvasExposed THEN { Timer("setup", clock + SetupTimerDelay, t.edit) }
                  ELSE {})
    /\ UNCHANGED <<handlerVars, auxVars, visualEditingReady, writtenAt, appTsx, domVars, panelVars, syncPc, pendingCode, reloadAt, clock,
                   canvasExposed, editableElementsCount, listening, events>>

\* the timer of setupVisualEditing: the canvas scans the document
SetupTimerFires(t) ==
    /\ t.kind = "setup"
    /\ t.at <= clock
    /\ timers' = timers \ {t}
    /\ editableElementsCount' = Len(QueryTagged(dom, 1))
    /\ visualEditingReady' = (QueryTagged(dom, 1) # <<>>)
    /\ events' = Append(events, Event(t.edit, "rescan"))
    /\ IF QueryTagged(dom, 1) = <<>>
       THEN UNCHANGED <<dom, layers, projectLayers, selectedElement, listening>>
       ELSE /\ dom' = ReplacedByClones(dom)
            /\ layers' = ScrubLayers(layers, ReplacedByClones(dom))
            /\ projectLayers' = ScrubLayers(projectLayers, ReplacedByClones(dom))
            /\ selectedElement' = ScrubSelection(selectedElement, ReplacedByClones(dom))
            /\ listening' = Listeners(ReplacedByClones(dom))
    /\ UNCHANGED <<handlerVars, auxVars, writtenAt, appTsx, pendingReload, fileOrigin, edits, domOp, panelVars, syncPc,
                   pendingCode, reloadAt, clock, canvasExposed>>

\* the runtime has compiled the written file and mounts it
SyncReload ==
    /\ pendingReload
    /\ reloadAt <= clock
    /\ WellFormed(appTsx)
    /\ dom' = Mount(appTsx)
    /\ layers' = ScrubLayers(layers, <<>>)
    /\ projectLayers' = ScrubLayers(projectLayers, <<>>)
    /\ selectedElement' = ScrubSelection(selectedElement, <<>>)
    /\ listening' = {}
    /\ pendingReload' = FALSE
    /\ events' = Append(events, Event(0, "reload"))
    /\ UNCHANGED <<handlerVars, auxVars, visualEditingReady, writtenAt, appTsx, fileOrigin, edits, domOp, panelVars, syncPc, pendingCode, timers,
                   reloadAt, clock, canvasExposed, editableElementsCount>>

\* handleElementClick of the canvas: a click on an element that carries the
\* listener selects it, unless the listener was made with another tool than
\* 'select'
CanvasClick(i) ==
    /\ i \in 1..Len(dom)
    /\ dom[i].nid \in listening
    /\ listenerTool = "select"
    /\ selectedElement' = [element |-> dom[i].nid,
                           dataAttribute |-> AttrValue(dom[i].attrs, TagAttrName)]
    /\ UNCHANGED <<handlerVars, auxVars, appTsx, dom, layers, projectLayers, pendingReload, fileOrigin, edits,
                   domOp, panelVars, syncVars>>

\* time passes when nothing is due; a write completes within the step of
\* time in which it began
SyncTick ==
    /\ clock < MaxClock
    /\ syncPc = "idle"
    /\ \A t \in timers : clock < t.at
    /\ ~(pendingReload /\ WellFormed(appTsx) /\ reloadAt <= clock)
    /\ clock' = clock + TickMs
    /\ UNCHANGED <<handlerVars, auxVars, visualEditingReady, writtenAt, appTsx, domVars, panelVars, syncPc, pendingCode, timers, reloadAt,
                   canvasExposed, editableElementsCount, listening, events>>

SyncNext ==
    \/ \E elementType \in ElementTypes : HandleAddElement(elementType)
    \/ \E node \in Range(layers) : HandleDuplicateLayer(node)
    \/ \E component \in SyncComponents : HandleComponentClickStart(component)
    \/ WriteCompletes
    \/ \E t \in timers : PanelTimerFires(t)
    \/ \E t \in timers : SetupTimerFires(t)
    \/ SyncReload
    \/ \E i \in 1..Len(dom) : CanvasClick(i)
    \/ SyncTick

SpecSync == SyncInit /\ [][SyncNext]_vars

\* C2: delete undoes insert: a removal that directly follows the insertion of
\* the element it removes, whose tag was new to the source, gives back the
\* source the insertion started from.
C2_DeleteUndoesInsert ==
    (lastOp.op = "remove" /\ lastOp.orig # <<>> /\ ~TagOccurs(lastOp.orig, lastOp.arg))
        => lastOp.after = lastOp.orig

\* C3: with nothing selected and a container-tagged element in a well-formed
\* source, the inserted fragment is the line directly before the closing tag
\* that matches the container's opening tag, and the rest of the source is as
\* it was.
C3_InsertBeforeContainerClose ==
    (/\ lastOp.op = "insert"
     /\ selectedTag = NoTag
     /\ WellFormed(lastOp.before)
     /\ LinesWithTag(lastOp.before, <<"container">>) # {})
        => LET c == CHOOSE i \in LinesWithTag(lastOp.before, <<"container">>) :
                        \A k \in LinesWithTag(lastOp.before, <<"container">>) : i <= k
               e == ElementEnd(lastOp.before, c)
           IN  /\ Len(lastOp.after) = Len(lastOp.before) + 1
               /\ IncludesTag(lastOp.after[e], lastOp.arg)
               /\ Without(lastOp.after, e, e) = lastOp.before

\* C4: removing a tag that a well-formed source carries on exactly one line, a
\* one-line tag, deletes the lines from that line through the matching closing
\* tag and keeps every other line, in order.
C4_RemoveExactSpan ==
    (/\ lastOp.op = "remove"
     /\ WellFormed(lastOp.before)
     /\ Cardinality(LinesWithTag(lastOp.before, lastOp.arg)) = 1
     /\ \A i \in LinesWithTag(lastOp.before, lastOp.arg) :
            lastOp.before[i].k \in {"open", "void", "inline"})
        => \A i \in LinesWithTag(lastOp.before, lastOp.arg) :
               lastOp.after = Without(lastOp.before, i, ElementEnd(lastOp.before, i))

\* C5: a removal whose target tag does not occur in the source leaves the
\* source as it was and reports not-found.
C5_RemoveMissingReportsNotFound ==
    (lastOp.op = "remove" /\ ~TagOccurs(lastOp.before, lastOp.arg))
        => (lastOp.after = lastOp.before /\ lastOp.report = "not-found")

\* C6: no two tags assigned in one session are equal.
C6_AssignedTagsDistinct ==
    \A i, j \in 1..Len(assigned) : i # j => assigned[i] # assigned[j]

(***************************************************************************)
(* What the claims on the layer tree and on the generated source speak of. *)
(***************************************************************************)
\* the tree a scan of document d builds
ScanOf(d) == buildLayerHierarchy(LayerNodes(d))

\* tags, parent/child relationships and depths of a layer list
RECURSIVE Structure(_)
Structure(ls) ==
    [k \in 1..Len(ls) |->
        [dataAttribute |-> ls[k].dataAttribute, type |-> ls[k].type, depth |-> ls[k].depth,
         parentId |-> ls[k].parentId, children |-> Structure(ls[k].children)]]

\* the value of an edited property on the element at position i of d
PropertyOf(d, i, property) ==
    CASE property = "style.color" -> <<StyleValue(AttrValue(d[i].attrs, "style"), "color")>>
      [] property = "style.fontSize" ->
            <<StyleValue(AttrValue(d[i].attrs, "style"), "font-size")>>
      [] property = "textContent" -> TextContent(d, i)
      [] property = "id" -> AttrValue(d[i].attrs, "id")
      [] OTHER -> AttrValue(d[i].attrs, "class")

\* source lines, once mounted, show on the element tagged tag the value that
\* document d has for the property on its element tagged tag
SourceShows(lines, d, tag, property) ==
    LET m == Mount(lines)
    IN  /\ TaggedIndex(m, tag) # 0
        /\ TaggedIndex(d, tag) # 0
        /\ PropertyOf(m, TaggedIndex(m, tag), property)
               = PropertyOf(d, TaggedIndex(d, tag), property)

IsRed(value) == value \in { "#ff0000", "rgb(255, 0, 0)", "red" }

\* a style of the document written as the declarations of a JSX style object
RECURSIVE JsxStyle(_)
JsxStyle(style) ==
    IF Len(style) < 2 THEN <<>>
    ELSE << CASE style[1] = "font-size" -> "fontSize"
              [] style[1] = "background-color" -> "backgroundColor"
              [] OTHER -> style[1],
            style[2] >> \o JsxStyle(Tail(Tail(style)))

\* C1: round trip: when the runtime has mounted a source that the generator
\* wrote from a document, a scan of the mounted document has the structure
\* (tags, parents and children, depths) of a scan of the document the source
\* was generated from.
C1_RoundTrip ==
    (domOp.op = "reload" /\ domOp.live)
        => Structure(ScanOf(dom)) = Structure(ScanOf(domOp.before))

\* C7: idempotent scan: a scan that directly follows a scan, with no step in
\* between, leaves the layer tree exactly as the first scan left it.
C7_ScanIdempotent ==
    (domOp.op = "scan" /\ domOp.repeat) => layers = domOp.prevLayers

\* C7, the case: a second scan in a row of a document with nested tagged elements
C7_Witness ==
    /\ domOp.op = "scan"
    /\ domOp.repeat
    /\ \E k \in 1..Len(layers) : layers[k].children # <<>>

\* C8: after a property edit of a selected element of the document, the
\* source in the runtime is what the generator produces from the edited
\* document, and it shows the edited property as the document has it.
C8_EditWritesGeneratedSource ==
    (domOp.op = "elementUpdate" /\ domOp.live /\ RootIndex(dom) # 0)
        => /\ appTsx = regenerateComponent(dom)
           /\ SourceShows(appTsx, dom, domOp.tag, domOp.property)

\* C9: after the colour red is applied to a selected element that the
\* generator reaches and the source is regenerated, the line of that element
\* in the source has a style whose colour is red, and the style of every
\* other tagged line is the style its element had before the edit.
C9_RedColourInGeneratedSource ==
    (/\ domOp.op = "applyToken"
     /\ domOp.live
     /\ IsRed(domOp.value)
     /\ TagOccurs(appTsx, domOp.tag)
     /\ fileOrigin = dom)
        => \A i \in 1..Len(appTsx) :
              LET tag == LineTag(appTsx[i])
                  style == AttrValue(appTsx[i].attrs, "style")
              IN  /\ tag = domOp.tag => IsRed(StyleValue(style, "color"))
                  /\ (tag # NoTag /\ tag # domOp.tag /\ TaggedIndex(domOp.before, tag) # 0)
                        => style = JsxStyle(AttrValue(
                               domOp.before[TaggedIndex(domOp.before, tag)].attrs, "style"))


\* C10: the steps of one edit run in the order regenerate, write, reload,
\* rescan: every rescan that belongs to an edit comes after the write of that
\* edit has completed and after the runtime has reloaded since that write.
C10_RescanAfterWriteAndReload ==
    \A i \in 1..Len(events) :
        events[i].ev = "rescan" =>
            \E j \in 1..(i - 1) :
                /\ events[j] = Event(events[i].edit, "write")
                /\ \E k \in (j + 1)..(i - 1) : events[k].ev = "reload"

\* the nearest ancestor of the element at position i that carries the tag
\* attribute, 0 when no ancestor carries it
RECURSIVE TaggedAncestorFrom(_, _)
TaggedAncestorFrom(d, parent) ==
    IF parent = 0 \/ Tagged(d[parent]) THEN parent
    ELSE TaggedAncestorFrom(d, ParentIndex(d, parent))

NearestTaggedAncestor(d, i) == TaggedAncestorFrom(d, ParentIndex(d, i))

\* C12: after a scan every tagged element that has a tagged ancestor is
\* listed among the children of the layer node of its nearest tagged
\* ancestor and names that ancestor as its parent, also when untagged
\* elements lie between the two
C12_LinkedToNearestTaggedAncestor ==
    (domOp.op = "scan" /\ QueryTagged(dom, 1) # <<>>) =>
        \A i \in 1..Len(dom) :
            (Tagged(dom[i]) /\ NearestTaggedAncestor(dom, i) # 0) =>
                \E n \in Range(FlattenLayers(layers)) :
                    /\ n.element = dom[NearestTaggedAncestor(dom, i)].nid
                    /\ \E c \in Range(n.children) :
                           /\ c.element = dom[i].nid
                           /\ c.parentId = <<"layer">> \o n.dataAttribute

\* the number of the ancestors of an element that carry the tag attribute,
\* counted from the element parent upwards up to the root element, which
\* ends the walk and is not counted
RECURSIVE TaggedAncestorsFrom(_, _)
TaggedAncestorsFrom(d, parent) ==
    IF parent = 0 \/ parent = RootIndex(d) THEN 0
    ELSE (IF Tagged(d[parent]) THEN 1 ELSE 0) + TaggedAncestorsFrom(d, ParentIndex(d, parent))

\* C13: after a scan the depth of every layer node is the number of the
\* ancestors of its element that carry the tag attribute, counted on the
\* walk from the element up to the root element
C13_DepthCountsTaggedAncestors ==
    (domOp.op = "scan" /\ QueryTagged(dom, 1) # <<>>) =>
        \A n \in Range(FlattenLayers(layers)) :
            n.depth = TaggedAncestorsFrom(dom, ParentIndex(dom, IndexOf(dom, n.element)))

\* C14: a scan of a document that holds no tagged element leaves the layer
\* list empty
C14_NoTaggedElementsEmptyLayers ==
    (domOp.op = "scan" /\ QueryTagged(dom, 1) = <<>>) => layers = <<>>

\* the elements of the live document that carry the selected marker
SelectedMarkers(d) == { i \in 1..Len(d) : HasAttr(d[i].attrs, "data-webstudio-selected") }

\* C15: after a selection exactly one element of the live document carries
\* the selected marker
C15_ExactlyOneSelected ==
    domOp.op = "select" => Cardinality(SelectedMarkers(dom)) = 1

\* C16: when the application of a property throws, the live document is as
\* it was before the call
C16_ThrownUpdateLeavesNodeUntouched ==
    domOp.op = "elementUpdateThrown" => dom = domOp.before

\* the element tagged id is a void element: the tag attribute stands on a
\* self-closing line, or on a line of its own in a start tag that ends in "/>"
VoidRoot(lines, id) ==
    /\ LinesWithTag(lines, id) # {}
    /\ \A i \in LinesWithTag(lines, id) :
           \/ lines[i].k = "void"
           \/ /\ lines[i].k = "attr"
              /\ \E e \in i..Len(lines) :
                     /\ lines[e].k = "vend"
                     /\ \A k \in i..(e - 1) : lines[k].k = "attr"

\* C17: a removal by tag that directly follows the insertion of a fragment
\* whose root is a void element deletes exactly one line of the source
C17_VoidRemovalDeletesOneLine ==
    (lastOp.op = "remove" /\ lastOp.orig # <<>> /\ VoidRoot(lastOp.before, lastOp.arg)) =>
        \E i \in 1..Len(lastOp.before) : lastOp.after = Without(lastOp.before, i, i)

\* the attributes the generated source may hold: the class binding, the tag
\* attribute, the inline style and the passthrough attributes
EmittedNames ==
    { "className", TagAttrName, "style", "src", "alt", "href", "type", "placeholder", "id" }

\* C18: a source that was generated from the live document holds no attribute
\* but the class binding, the tag attribute, the inline style and the
\* passthrough attributes; the selected marker is not in it
C18_OnlyListedAttributesGenerated ==
    fileOrigin # <<>> =>
        \A i \in 1..Len(appTsx) :
            \A k \in 1..Len(appTsx[i].attrs) : appTsx[i].attrs[k].n \in EmittedNames

\* C19: an insertion that finds no anchor in the source leaves the source as
\* it was and reports the failure: the handler does not report success
C19_NoAnchorUnchangedAndSignalled ==
    (lastOp.op = "insert" /\ InsertionPoint(lastOp.before, selectedTag).line = -1) =>
        (lastOp.after = lastOp.before /\ lastOp.report # "success")

\* how long the components panel and the canvas wait after a write before
\* the canvas scans the document
ReadyTimeout == PanelTimerDelay + SetupTimerDelay

\* C20: when the runtime has not reloaded the written file within the time
\* the editor waits after a write, the canvas does not present the document
\* it has as ready and current
C20_NoReloadInTimeNotPresentedReady ==
    (pendingReload /\ clock >= writtenAt + ReadyTimeout) => ~visualEditingReady

\* C21: after a reload, and after the layers panel was mounted for a project,
\* the layer list that is presented is the scan of the live document
C21_PresentedLayersAreFreshScan ==
    (domOp.op \in {"reload", "mountPanel"} /\ layers # <<>>) => layers = ScanOf(dom)

(***************************************************************************)
(* The start of the runtime: initialize() boots the WebContainer,          *)
(* startProject waits for the server-ready event of the development        *)
(* server, and the canvas polls the document of the preview frame after    *)
(* each load of the frame.  mount and npm install of startProject are       *)
(* taken as completed when startProject reaches its wait.                  *)
(***************************************************************************)
MaxInits == 2       \* at most this many calls of initialize() in one session
MaxStarts == 1      \* at most this many calls of startProject in one session
MaxLoads == 1       \* at most this many loads of the preview frame in one session

\* maxAttempts of handleLoad
maxAttempts == 10

\* the timeout of startProject, in milliseconds
StartTimeout == 30000

\* the step of time of the wait of startProject, in milliseconds
StartTickMs == 10000

\* what the start of the runtime leaves alone
notRuntime == <<engineVars, domVars, syncVars, handlerVars, toolVars, tabVars, chatVars>>

RuntimeInit ==
    /\ appTsx = getDefaultAppTemplate
    /\ now = 0
    /\ assigned = <<>>
    /\ selectedTag = NoTag
    /\ serviceExposed = TRUE
    /\ lastOp = NoOp
    /\ DomIdle
    /\ SyncIdle
    /\ HandlersIdle
    /\ AuxIdle

\* initialize(): boot() is called when the static webContainer is not set
\* yet; the await of boot() ends the step
Initialize ==
    /\ boot.calls < MaxInits
    /\ boot' = IF ~boot.container
               THEN [boot EXCEPT !.calls = @ + 1, !.boots = @ + 1, !.pending = @ + 1]
               ELSE [boot EXCEPT !.calls = @ + 1]
    /\ UNCHANGED <<serverWait, polls, setupCalls, notRuntime>>

\* boot() resolves and initialize() sets the static webContainer
BootResolves ==
    /\ boot.pending > 0
    /\ boot' = [boot EXCEPT !.pending = @ - 1, !.container = TRUE]
    /\ UNCHANGED <<serverWait, polls, setupCalls, notRuntime>>

\* boot() rejects: initialize() logs the error and throws it on
BootRejects ==
    /\ boot.pending > 0
    /\ boot' = [boot EXCEPT !.pending = @ - 1]
    /\ UNCHANGED <<serverWait, polls, setupCalls, notRuntime>>

\* startProject up to its promise: it throws when the container is not set,
\* else it sets the timer of the timeout and listens for server-ready
StartProject ==
    /\ serverWait.starts < MaxStarts
    /\ serverWait.pc # "waiting"
    /\ serverWait' = [serverWait EXCEPT
                         !.pc = IF boot.container THEN "waiting" ELSE "failed",
                         !.elapsed = 0,
                         !.starts = @ + 1]
    /\ UNCHANGED <<boot, polls, setupCalls, notRuntime>>

\* the server-ready event: the timer is cleared, serverUrl is set and the
\* promise resolves; resolving a promise that was rejected changes nothing
ServerReady ==
    /\ serverWait.pc \in {"waiting", "timeout"}
    /\ ~serverWait.url
    /\ serverWait' = [serverWait EXCEPT
                         !.pc = IF @ = "waiting" THEN "ready" ELSE @,
                         !.url = TRUE]
    /\ UNCHANGED <<boot, polls, setupCalls, notRuntime>>

\* time passes while startProject waits; the timer rejects the promise when
\* the timeout has passed
StartTimePasses ==
    /\ serverWait.pc = "waiting"
    /\ serverWait' = [serverWait EXCEPT
                         !.elapsed = @ + StartTickMs,
                         !.pc = IF serverWait.elapsed + StartTickMs >= StartTimeout
                                THEN "timeout" ELSE "waiting"]
    /\ UNCHANGED <<boot, polls, setupCalls, notRuntime>>

\* handleLoad: the timer of the first setupVisualEditing and the interval
HandleLoad ==
    /\ Len(polls) < MaxLoads
    /\ polls' = Append(polls, [attempts |-> 0, active |-> TRUE, initial |-> TRUE])
    /\ UNCHANGED <<boot, serverWait, setupCalls, notRuntime>>

\* the timer of handleLoad fires: setupVisualEditing()
InitialSetupFires(k) ==
    /\ polls[k].initial
    /\ polls' = [polls EXCEPT ![k].initial = FALSE]
    /\ setupCalls' = setupCalls + 1
    /\ UNCHANGED <<boot, serverWait, notRuntime>>

\* a poll without the limit of maxAttempts
pollStep_Unlimited(poll, found) ==
    LET attempts == poll.attempts + 1
    IN  IF found THEN [poll EXCEPT !.attempts = attempts, !.active = FALSE]
        ELSE [poll EXCEPT !.attempts = attempts]

\* the callback of the interval of handleLoad: found says whether the
\* document of the frame is there and holds tagged elements
pollStep(poll, found) ==
    LET attempts == poll.attempts + 1
    IN  IF attempts >= maxAttempts
        THEN [poll EXCEPT !.attempts = attempts, !.active = FALSE]
        ELSE IF found THEN [poll EXCEPT !.attempts = attempts, !.active = FALSE]
        ELSE [poll EXCEPT !.attempts = attempts]

\* one tick of the interval; when elements were found before the limit the
\* interval is cleared and setupVisualEditing() is called
PollTick(k, found) ==
    /\ polls[k].active
    /\ polls' = [polls EXCEPT ![k] = pollStep(polls[k], found)]
    /\ setupCalls' = IF found /\ polls[k].attempts + 1 < maxAttempts
                     THEN setupCalls + 1 ELSE setupCalls
    /\ UNCHANGED <<boot, serverWait, notRuntime>>

RuntimeNext ==
    \/ Initialize
    \/ BootResolves
    \/ BootRejects
    \/ StartProject
    \/ ServerReady
    \/ StartTimePasses
    \/ HandleLoad
    \/ \E k \in 1..Len(polls) : InitialSetupFires(k)
    \/ \E k \in 1..Len(polls), found \in BOOLEAN : PollTick(k, found)

SpecRuntime == RuntimeInit /\ [][RuntimeNext]_vars

C27_BootAtMostOnce ==
    boot.boots <= 1

\* C23: when an insertion directly follows another insertion, with no removal
\* or save between them, the source written holds the tags of both
Insertions == { "insert", "insertAsset" }

C23_InsertionsAccumulate ==
    [][ (lastOp.op \in Insertions /\ lastOp' # lastOp /\ lastOp'.op \in Insertions)
            => { lastOp.arg, lastOp'.arg } \subseteq TagsIn(appTsx') ]_vars

\* C24: a property applied with handleElementUpdate removes no element from
\* the source: every tag in App.tsx before the update is in it afterwards
C24_UpdateKeepsElements ==
    [][ (edits' = edits + 1 /\ domOp'.op = "elementUpdate")
            => TagsIn(appTsx) \subseteq TagsIn(appTsx') ]_vars

\* C25: when the scan of setupVisualEditing has run, every tagged element of
\* the live document carries the click listener
C25_EveryTaggedElementListens ==
    [][ (\E t \in timers : t.kind = "setup" /\ timers' = timers \ {t} /\ events' # events)
            => \A i \in 1..Len(dom') : Tagged(dom'[i]) => dom'[i].nid \in listening' ]_vars

(***************************************************************************)
(* The toolbar and the canvas: the click listeners read the currentTool    *)
(* of the setupVisualEditing that made them.                               *)
(***************************************************************************)
MaxToolLoads == 2   \* the preview frame loads at most this many times

Tools == { "select", "hand", "rectangle", "circle", "text" }

toolFixed == <<engineVars, pendingReload, fileOrigin, edits, domOp, syncPc, pendingCode,
               timers, reloadAt, clock, canvasExposed, writtenAt, handlerVars,
               runtimeVars, tabVars, chatVars>>

\* the preview shows the default component, set up while the tool was 'select'
ToolInit ==
    /\ SyncInit
    /\ canvasExposed = FALSE

\* onToolChange of the toolbar: setCurrentTool(tool); the canvas renders with
\* a new setupVisualEditing, and the effect registers a new handleLoad
SetCurrentTool(tool) ==
    /\ currentTool # tool
    /\ currentTool' = tool
    /\ UNCHANGED <<listenerTool, pendingSetups, dom, layers, projectLayers, selectedElement,
                   editableElementsCount, listening, events, visualEditingReady, toolFixed>>

ToolLoads == Cardinality({ k \in 1..Len(events) : events[k].ev = "reload" })

\* the frame loads a new document and handleLoad runs: its timer and the
\* first tick of its interval that finds the elements both call the
\* setupVisualEditing of the render in which handleLoad was registered
CanvasFrameLoads ==
    /\ ToolLoads < MaxToolLoads
    /\ dom' = Mount(appTsx)
    /\ layers' = ScrubLayers(layers, <<>>)
    /\ projectLayers' = ScrubLayers(projectLayers, <<>>)
    /\ selectedElement' = ScrubSelection(selectedElement, <<>>)
    /\ listening' = {}
    /\ events' = Append(events, Event(0, "reload"))
    /\ pendingSetups' = pendingSetups \o <<currentTool, currentTool>>
    /\ UNCHANGED <<currentTool, listenerTool, editableElementsCount, visualEditingReady,
                   toolFixed>>

\* the timer of a setupVisualEditing fires: the scan puts clones in the place
\* of the elements, and their listeners close over the currentTool of that
\* setupVisualEditing
ToolSetupFires ==
    /\ pendingSetups # <<>>
    /\ pendingSetups' = Tail(pendingSetups)
    /\ editableElementsCount' = Len(QueryTagged(dom, 1))
    /\ visualEditingReady' = (QueryTagged(dom, 1) # <<>>)
    /\ events' = Append(events, Event(0, "rescan"))
    /\ IF QueryTagged(dom, 1) = <<>>
       THEN UNCHANGED <<dom, layers, projectLayers, selectedElement, listening, listenerTool>>
       ELSE /\ dom' = ReplacedByClones(dom)
            /\ layers' = ScrubLayers(layers, ReplacedByClones(dom))
            /\ projectLayers' = ScrubLayers(projectLayers, ReplacedByClones(dom))
            /\ selectedElement' = ScrubSelection(selectedElement, ReplacedByClones(dom))
            /\ listening' = Listeners(ReplacedByClones(dom))
            /\ listenerTool' = Head(pendingSetups)
    /\ UNCHANGED <<currentTool, toolFixed>>

ToolNext ==
    \/ \E tool \in Tools : SetCurrentTool(tool)
    \/ CanvasFrameLoads
    \/ ToolSetupFires
    \/ \E i \in 1..Len(dom) : CanvasClick(i)

SpecTool == ToolInit /\ [][ToolNext]_vars

\* C26: a click on the canvas changes the selection only if the tool chosen at
\* the time of the click is 'select'
C26_ClickSelectsOnlyWithSelectTool ==
    [][ (dom' = dom /\ pendingSetups' = pendingSetups /\ currentTool' = currentTool
           /\ selectedElement' # selectedElement)
            => currentTool = "select" ]_vars

(***************************************************************************)
(* The code editor: handleContentChange and handleSaveFile on the tab of   *)
(* /src/App.tsx, and handleCodeChange of the studio, which writes the file.*)
(***************************************************************************)
MaxSaves == 2       \* at most this many saves are in flight at a time

tabFixed == <<panelVars, domVars, syncVars, handlerVars, runtimeVars, toolVars, chatVars>>

\* handleOpenFile has read /src/App.tsx into a new tab
TabInit ==
    /\ appTsx = getDefaultAppTemplate
    /\ now = 0
    /\ assigned = <<>>
    /\ selectedTag = NoTag
    /\ serviceExposed = TRUE
    /\ lastOp = NoOp
    /\ DomIdle
    /\ SyncIdle
    /\ HandlersIdle
    /\ RuntimeIdle
    /\ ToolIdle
    /\ ChatIdle
    /\ openTab = [content |-> getDefaultAppTemplate, modified |-> FALSE]
    /\ saves = <<>>

\* handleContentChange: the tab takes the content and is marked modified
HandleContentChange(content) ==
    /\ content # openTab.content
    /\ openTab' = [content |-> content, modified |-> TRUE]
    /\ UNCHANGED <<appTsx, saves, tabFixed>>

\* handleSaveFile up to its await: onCodeChange is called with the content
\* of the tab, and handleCodeChange awaits writeFile
HandleSaveFileStart ==
    /\ Len(saves) < MaxSaves
    /\ saves' = Append(saves, openTab.content)
    /\ UNCHANGED <<appTsx, openTab, tabFixed>>

\* what handleCodeChange leaves in the file: the content when writeFile
\* resolved; when it rejected, the catch logs the error and sets the status
\* message, and the promise of handleCodeChange resolves all the same
handleCodeChange(file, content, ok) == [file |-> IF ok THEN content ELSE file,
                                        resolved |-> TRUE]

\* the write of the k-th save in flight settles and handleSaveFile goes on
\* after its await: the tab is marked as saved when onCodeChange resolved
SaveSettles(k, ok) ==
    /\ k \in 1..Len(saves)
    /\ LET done == handleCodeChange(appTsx, saves[k], ok)
       IN  /\ appTsx' = done.file
           /\ openTab' = IF done.resolved THEN [openTab EXCEPT !.modified = FALSE]
                         ELSE openTab
    /\ saves' = [j \in 1..(Len(saves) - 1) |-> IF j < k THEN saves[j] ELSE saves[j + 1]]
    /\ UNCHANGED tabFixed

TabNext ==
    \/ \E content \in EditorDocs \cup { getDefaultAppTemplate } : HandleContentChange(content)
    \/ HandleSaveFileStart
    \/ \E k \in 1..MaxSaves, ok \in BOOLEAN : SaveSettles(k, ok)

SpecTab == TabInit /\ [][TabNext]_vars

\* C28: a tab that is marked unmodified holds the content that was last
\* written to the file with success
C28_UnmodifiedTabEqualsFile ==
    ~openTab.modified => openTab.content = appTsx

(***************************************************************************)
(* The chat assistant: executeAction and the functions it calls, on the    *)
(* file /src/App.tsx and the selection of the studio.                      *)
(***************************************************************************)
\* componentMap, for the components of the library above
componentMap(componentType) ==
    CASE componentType = "Primary Button" -> "button-primary"
      [] componentType = "Image" -> "image-placeholder"

ComponentTypes == { "Primary Button", "Image" }

\* no code assigns window.webStudioInterface
webStudioInterface == FALSE

\* the actions the model asks for
ChatActions == { "add_component", "modify_style", "modify_content", "remove_component",
                 "create_project", "general_help" }

\* the replies of executeAction that tell the user the operation was done
DoneReplies == { "Added", "Updated", "Changed", "Removed" }

chatFixed == <<now, selectedTag, serviceExposed, domVars, syncVars, handlerVars,
               runtimeVars, toolVars, tabVars, panelExposed>>

\* the studio with or without the components panel mounted
ChatInit ==
    /\ appTsx = getDefaultAppTemplate
    /\ now = 0
    /\ assigned = <<>>
    /\ selectedTag = NoTag
    /\ serviceExposed \in BOOLEAN
    /\ lastOp = NoOp
    /\ DomIdle
    /\ SyncIdle
    /\ HandlersIdle
    /\ RuntimeIdle
    /\ ToolIdle
    /\ TabIdle
    /\ panelExposed \in BOOLEAN
    /\ chatOp = NoChatOp

\* case 'add_component': addComponent calls the addComponent of the panel's
\* interface when there is one, which calls handleComponentClick; the reply
\* follows in every case
ExecuteAddComponent(componentType) ==
    /\ Len(assigned) < MaxAssign
    /\ LET component == CHOOSE c \in defaultComponents : c.id = componentMap(componentType)
           currentAppContent == IF serviceExposed THEN appTsx ELSE getDefaultAppTemplate
           uniqueId == ComponentUniqueId(component, now)
           updatedAppContent ==
               addComponentToExistingApp(currentAppContent, component, selectedTag, now)
       IN  IF panelExposed
           THEN /\ appTsx' = updatedAppContent
                /\ assigned' = Append(assigned, uniqueId)
                /\ lastOp' = Op("insert", uniqueId, currentAppContent, updatedAppContent,
                                "success", <<>>)
                /\ chatOp' = ChatOp("add_component", "Added", TRUE)
           ELSE /\ UNCHANGED <<appTsx, assigned, lastOp>>
                /\ chatOp' = ChatOp("add_component", "Added", FALSE)
    /\ UNCHANGED chatFixed

\* case 'modify_style' and case 'modify_content': without a selection the
\* user is asked to select; with one, modifyElementStyle and
\* modifyElementContent call updateElement of window.webStudioInterface when
\* there is one, and the reply follows
ExecuteModify(action) ==
    /\ action \in { "modify_style", "modify_content" }
    /\ chatOp' = IF selectedTag = NoTag
                 THEN ChatOp(action, "SelectFirst", FALSE)
                 ELSE ChatOp(action,
                             IF action = "modify_style" THEN "Updated" ELSE "Changed",
                             webStudioInterface)
    /\ UNCHANGED <<appTsx, assigned, lastOp, chatFixed>>

\* case 'remove_component': removeSelectedComponent calls the
\* handleRemoveComponent of the panel's interface when there is one, which
\* does nothing without window.webContainerService
ExecuteRemoveComponent ==
    /\ IF selectedTag = NoTag
       THEN /\ chatOp' = ChatOp("remove_component", "SelectFirst", FALSE)
            /\ UNCHANGED <<appTsx, lastOp>>
       ELSE IF panelExposed /\ serviceExposed
       THEN LET updatedAppContent == removeComponentFromApp(appTsx, selectedTag)
            IN  /\ appTsx' = updatedAppContent
                /\ lastOp' = Op("remove", selectedTag, appTsx, updatedAppContent,
                                "success", <<>>)
                /\ chatOp' = ChatOp("remove_component", "Removed", TRUE)
       ELSE /\ chatOp' = ChatOp("remove_component", "Removed", FALSE)
            /\ UNCHANGED <<appTsx, lastOp>>
    /\ UNCHANGED <<assigned, chatFixed>>

\* case 'create_project' and default: the user is told what to do
ExecuteOther(action) ==
    /\ action \in { "create_project", "general_help" }
    /\ chatOp' = ChatOp(action, "Help", FALSE)
    /\ UNCHANGED <<appTsx, assigned, lastOp, chatFixed>>

ChatNext ==
    \/ \E componentType \in ComponentTypes : ExecuteAddComponent(componentType)
    \/ \E action \in ChatActions : ExecuteModify(action)
    \/ ExecuteRemoveComponent
    \/ \E action \in ChatActions : ExecuteOther(action)
    \/ \E tag \in (TagsIn(appTsx) \cap ClickTargets) \cup { NoTag } : SelectElement(tag)
    \/ Tick

SpecChat == ChatInit /\ [][ChatNext]_vars

\* C29: when the chat assistant tells that an operation was done, the
\* operation was applied
C29_DoneOnlyIfApplied ==
    chatOp.reply \in DoneReplies => chatOp.applied

(***************************************************************************)
(* The layers panel on a document with a locked element.                   *)
(***************************************************************************)
\* a document whose title carries data-locked
LockedDoc ==
    Header \o
    << OpenLine("div", <<Tag(<<"root">>)>>, 4),
       InlineLine("h1", <<Tag(<<"title">>), Attr("data-locked", <<"true">>)>>, 6, "Welcome"),
       InlineLine("p", <<Tag(<<"para">>)>>, 6, "Hello"),
       CloseLine("div", 4) >> \o
    Footer

LockInit ==
    /\ appTsx = LockedDoc
    /\ dom = Mount(LockedDoc)
    /\ layers = <<>>
    /\ projectLayers = <<>>
    /\ selectedElement = NoSelection
    /\ pendingReload = FALSE
    /\ fileOrigin = <<>>
    /\ edits = 0
    /\ domOp = NoDomOp
    /\ now = 0
    /\ assigned = <<>>
    /\ selectedTag = NoTag
    /\ serviceExposed = TRUE
    /\ lastOp = NoOp
    /\ SyncIdle
    /\ HandlersIdle
    /\ AuxIdle

AllLayers(ls) == Range(FlattenLayers(ls))

LockNext ==
    \/ RefreshLayers
    \/ MountLayersPanel
    \/ \E node \in AllLayers(layers) : HandleLayerClick(node)
    \/ \E node \in AllLayers(layers) : HandleToggleVisibility(node)
    \/ \E node \in AllLayers(layers) : HandleDeleteLayer(node)
    \/ Reload

SpecLock == LockInit /\ [][LockNext]_vars

LayerActions == { "returned", "select", "toggle", "delete" }

====
